---- MODULE Spec2Model ----
(***************************************************************************)
(* Transponder scanning engine of rdvb: scan_system / scan_channel         *)
(* (scan.rs), section acquisition (demux.rs) and lock polling              *)
(* (frontend/mod.rs).  The frontend and demux devices are the environment: *)
(* every ioctl / read outcome is a nondeterministic input.                 *)
(***************************************************************************)
EXTENDS Integers, Sequences, FiniteSets, TLC

\* ------------------------------------------------------------------ bounds
\* Number of candidate frequencies handed to scan_system.
NumCandidates == 3

\* --------------------------------------------------------- program constants
\* Durations are in milliseconds.
LOCK_TIMEOUT == 1000
PAT_TIMEOUT == 3000
DEFAULT_POLL_INTERVAL == 50
PAT_PID == 0
PAT_TABLE_ID == 0
PMT_TABLE_ID == 2
NIT_ACTUAL_NETWORK_TABLE_ID == 64
SDT_PID == 17
SDT_ACTUAL_TRANSPORT_TABLE_ID == 66
FRANCE_CORRECTION == 166000
\* PacketHeader::BUF_LEN
BUF_LEN == 8
\* DESCRIPTOR_ID of each module of mpeg/descriptors.
iso639_language_DESCRIPTOR_ID == 10
carousel_identifier_DESCRIPTOR_ID == 19
network_name_DESCRIPTOR_ID == 64
service_list_DESCRIPTOR_ID == 65
service_DESCRIPTOR_ID == 72
component_DESCRIPTOR_ID == 80
stream_identifier_DESCRIPTOR_ID == 82
subtitling_DESCRIPTOR_ID == 89
terrestrial_delivery_system_DESCRIPTOR_ID == 90
private_data_specifier_DESCRIPTOR_ID == 95
data_broadcast_id_DESCRIPTOR_ID == 102
ac3_DESCRIPTOR_ID == 106
application_signalling_DESCRIPTOR_ID == 111
enhanced_ac3_DESCRIPTOR_ID == 122
extension_DESCRIPTOR_ID == 127
logical_channel_DESCRIPTOR_ID == 131

\* Option: None is the empty sequence, Some(x) the sequence of x alone.
None == << >>
Some(x) == << x >>
unwrap(o) == o[1]

\* Longest list of channels given to sort_by_lcn.
MaxChannels == 3

\* Longest buffer given to Descriptor::read_many.
MaxDescriptorBytes == 5

\* Most records in a PAT payload given to parse_pat.
MaxPatRecords == 2

\* The longest list of elementary streams of a PMT given to pmt_to_video_pid and
\* pmt_to_audio_pids.
MaxStreams == 3

\* ------------------------------------------------------------------ inputs
\* The candidate sequence given to scan_system (frequency and bandwidth in MHz
\* here); the candidates differ in frequency and alternate in bandwidth.
frequencies ==
    [i \in 1..NumCandidates |->
        [frequency |-> 474 + 8 * (i - 1), bandwidth |-> IF i % 2 = 1 THEN 8 ELSE 7]]

\* The delivery system argument of scan_system.
system == "DVBT"

\* Transport stream ids a PAT header may carry.
TSIDs == {1, 2}

\* Signal strengths the frontend may report: a value on one of two scales, or
\* no value when the scale is FE_SCALE_NOT_AVAILABLE.
Strengths ==
    [kind : {"Decibel"}, value : {-70, -50}]
        \cup [kind : {"Relative"}, value : {40}]
        \cup [kind : {"Unavailable"}, value : {0}]

\* PAT payloads a multiplex may carry, as the bytes of the section between its
\* header and its CRC: records of 4 bytes (program_number, 3 reserved bits and a
\* 13-bit pid).  The last one ends in the middle of a record.
PatPayloads ==
    { << 0, 0, 224, 16,  0, 1, 224, 32 >>,
      << 0, 1, 224, 32 >>,
      << 0, 0, 224, 16,  0, 0, 224, 18,  0, 1, 224, 32,  0, 2, 224, 33 >>,
      << 0, 0, 224, 16,  0, 1 >> }

\* SDT payloads a multiplex may carry: original_network_id, a reserved byte and
\* one service (service_id 1) with one descriptor of 1 byte; in the second one
\* descriptors_length says 9 where 3 bytes follow; the third one is cut short.
SdtPayloads ==
    { << 32, 250, 255,  0, 1, 252, 128, 3,  5, 1, 9 >>,
      << 32, 250, 255,  0, 1, 252, 128, 9,  5, 1, 9 >>,
      << 32 >> }

\* Arguments wait_for_lock is called with when exercised on its own.
LockTimeouts == {None} \cup {Some(t) : t \in {0, 50, 100, 120, 250}}
LockPollIntervals == {None} \cup {Some(d) : d \in {30, 100}}

\* logical_channel_number values of the channels given to sort_by_lcn.
LcnValues == {None, Some(1), Some(2)}

\* The lists of ChannelInformation given to sort_by_lcn; service_id tells the
\* channels of a list apart.
ChannelLists ==
    UNION {[1..n -> LcnValues] : n \in 0..MaxChannels}

channels_of(lcns) ==
    [i \in DOMAIN lcns |-> [service_id |-> i, logical_channel_number |-> lcns[i]]]

\* --- bands.rs
EUROPE_VHF_BAND_III ==
    [first_frequency |-> 177500000, first_channel |-> 5, last_channel |-> 12,
     bandwidth |-> "_7MHz", display_prefix |-> "E"]

EUROPE_UHF_BAND_IV_V ==
    [first_frequency |-> 474000000, first_channel |-> 21, last_channel |-> 68,
     bandwidth |-> "_8MHz", display_prefix |-> ""]

\* FRANCE_UHF: EUROPE_UHF_BAND_IV_V shifted by FRANCE_CORRECTION, up to channel 49.
FRANCE_UHF ==
    [EUROPE_UHF_BAND_IV_V EXCEPT
        !.first_frequency = EUROPE_UHF_BAND_IV_V.first_frequency + FRANCE_CORRECTION,
        !.last_channel = 49]

\* The bands iterated: the three of bands.rs and small ones, down to the band
\* of one channel and the band with none (last_channel = first_channel - 1).
BroadcastBands ==
    {EUROPE_VHF_BAND_III, EUROPE_UHF_BAND_IV_V, FRANCE_UHF}
        \cup {[first_frequency |-> 100000000, first_channel |-> f, last_channel |-> l,
                bandwidth |-> b, display_prefix |-> "T"] :
                   f \in {0, 3}, l \in {2, 3, 6}, b \in {"_1_172MHz", "_10MHz"}}

\* The 4-byte records of the PAT payloads given to parse_pat: two bytes of
\* program_number, then reserved bits and pid.
PatRecords ==
    {<< b0, b1, b2, b3 >> : b0 \in {0, 1}, b1 \in {0, 2}, b2 \in {1, 224, 255},
                            b3 \in {16, 255}}

RECURSIVE Flatten(_)
Flatten(records) ==
    IF records = << >> THEN << >> ELSE Head(records) \o Flatten(Tail(records))

\* The payloads of the PAT sections given to parse_pat: whole records, or the
\* same with the last two bytes missing.
PatPayloadBytes ==
    UNION {UNION {{Flatten(rs), SubSeq(Flatten(rs), 1, 4 * n - 2)} :
                      rs \in [1..n -> PatRecords]} : n \in 0..MaxPatRecords}

\* The PAT sections given to parse_pat, section_length saying what the payload
\* holds.
PatPackets ==
    {[pid |-> PAT_PID, table_id |-> PAT_TABLE_ID, freq |-> 474, identifier |-> 1,
      section_length |-> Len(d) + (5 + 4), data |-> d] : d \in PatPayloadBytes}

\* The buffers given to Descriptor::read_many: bytes that serve as tags (64 is
\* NetworkName, 65 ServiceList, the others are no known tag), as lengths and as
\* data.
DescriptorBytes == {0, 1, 2, 5, 64, 65}

DescriptorBuffers ==
    UNION {[1..n -> DescriptorBytes] : n \in 0..MaxDescriptorBytes}

\* The (tag, bytes) given to Descriptor::read: every value of the tag byte, with
\* no data or with one record of 4 bytes.
DescriptorTags == 0..255

ReadBuffers == {<< >>, << 0, 1, 128, 5 >>}

\* The buffers given to PacketHeader::from_buf: 8 bytes with every kind of
\* second byte (reserved bits, the two high bits of section_length) and third
\* byte (its low bits), and a buffer of 7 bytes.
HeaderBuffers ==
    {<< 0, b1, b2, 0, 1, 193, 0, 0 >> :
        b1 \in {0, 1, 3, 128, 132, 176, 179, 243},
        b2 \in {0, 5, 8, 9, 10, 13, 253, 254, 255}}
        \cup {<< 0, 176, 13, 0, 1, 193, 0 >>}

\* Whether the build checks integer overflow (debug) or wraps (release).
Builds == {"overflow-checks", "wrapping"}

\* --- the transponders given to ChannelInformation::from_transponder
UnknownDescriptor == [variant |-> "_Unknown", descriptor_id |-> 5, raw_data |-> << 9 >>]

ServiceDescriptor(name) ==
    [variant |-> "Service", service_type |-> 1, provider |-> "p", service |-> name]

\* An SDT service, with or without a Service descriptor.
SdtService(service_id, described) ==
    [service_id |-> service_id,
     descriptors |-> IF described
                     THEN << UnknownDescriptor, ServiceDescriptor("s"),
                             ServiceDescriptor("t") >>
                     ELSE << UnknownDescriptor >>]

\* SDTs with the services 2, 1, 3 in that order.
SdtTables ==
    {[original_network_id |-> 8442,
      services |-> << SdtService(2, d[1]), SdtService(1, d[2]), SdtService(3, d[3]) >>] :
        d \in [1..3 -> BOOLEAN]}

ServiceListDescriptor(ids) ==
    [variant |-> "ServiceList",
     services |-> [i \in DOMAIN ids |-> [service_id |-> ids[i], service_type |-> 1]]]

LogicalChannelDescriptor(entries) ==
    [variant |-> "LogicalChannel",
     elements |-> [i \in DOMAIN entries |->
                      [service_id |-> entries[i][1], visible_service |-> TRUE,
                       logical_channel_number |-> entries[i][2]]]]

\* NITs: one element listing every service, with numbers for services 1 and 2;
\* two elements sharing the services, the second one without numbers; one
\* element with numbers and no service list.
NitTables ==
    { [elements |-> << [transport_stream_id |-> 7, original_network_id |-> 8442,
                        transport_descriptors |->
                            << ServiceListDescriptor(<< 1, 2, 3 >>),
                               LogicalChannelDescriptor(<< << 3, 0 >> >>),
                               LogicalChannelDescriptor(<< << 1, 5 >>, << 2, 3 >>, << 1, 6 >> >>) >>] >>],
      [elements |-> << [transport_stream_id |-> 7, original_network_id |-> 8442,
                        transport_descriptors |->
                            << LogicalChannelDescriptor(<< << 1, 9 >>, << 2, 4 >> >>),
                               ServiceListDescriptor(<< 1 >>) >>],
                       [transport_stream_id |-> 8, original_network_id |-> 8442,
                        transport_descriptors |->
                            << ServiceListDescriptor(<< 2, 3 >>) >>] >>],
      [elements |-> << [transport_stream_id |-> 7, original_network_id |-> 8442,
                        transport_descriptors |->
                            << LogicalChannelDescriptor(<< << 1, 5 >> >>) >>] >>] }

\* An audio stream with its language ("fra" and the audio type byte).
AudioStream(pid) ==
    [stream_type |-> "IsoIec13818_3Audio", elementary_pid |-> pid,
     descriptors |-> << [variant |-> "Iso639Language", language |-> << 102, 114, 97, 0 >>] >>]

VideoStream(pid) ==
    [stream_type |-> "IsoIec14496_10AVCVideo", elementary_pid |-> pid, descriptors |-> << >>]

\* The PMT of a television service (audio, then video on the PCR PID + offset)
\* and of a radio service (audio only).
TvProgram(n, offset) ==
    [program_number |-> n, pcr_pid |-> 100 + n, program_info_descriptors |-> << >>,
     elementary_streams |-> << AudioStream(200 + n), VideoStream(100 + n + offset) >>]

RadioProgram(n) ==
    [program_number |-> n, pcr_pid |-> 200 + n, program_info_descriptors |-> << >>,
     elementary_streams |-> << AudioStream(200 + n) >>]

\* An Iso639Language descriptor: three letters and the audio type byte.
LanguageDescriptor(a, b, c) ==
    [variant |-> "Iso639Language", language |-> << a, b, c, 0 >>]

\* An elementary stream of a PMT.
Stream(stream_type, pid, descriptors) ==
    [stream_type |-> stream_type, elementary_pid |-> pid, descriptors |-> descriptors]

\* The elementary streams the PMTs given to pmt_to_video_pid and
\* pmt_to_audio_pids are made of: the two regular audio types, with one, no and
\* two languages; private streams with an AC-3, with an Enhanced AC-3 and with
\* no audio descriptor; a stream of another type with an AC-3 descriptor; video
\* on PID 101 and on PID 102.
ElementaryStreams ==
    { Stream("IsoIec11172Audio", 201, << LanguageDescriptor(102, 114, 97) >>),
      Stream("IsoIec13818_3Audio", 202, << >>),
      Stream("IsoIec13818_3Audio", 207,
             << LanguageDescriptor(101, 110, 103), LanguageDescriptor(102, 114, 97) >>),
      Stream("ItuTRecH2220IsoIec13818_1PrivateSections", 203,
             << [variant |-> "Ac3", buf |-> << >>], LanguageDescriptor(100, 101, 117) >>),
      Stream("ItuTRecH2220IsoIec13818_1PESPacketsContainingPrivateData", 204,
             << [variant |-> "EnhancedAc3", buf |-> << >>] >>),
      Stream("ItuTRecH2220IsoIec13818_1PESPacketsContainingPrivateData", 205,
             << [variant |-> "Subtitling", buf |-> << >>],
                LanguageDescriptor(102, 114, 97) >>),
      Stream("IsoIec13818_6TypeB", 206, << [variant |-> "Ac3", buf |-> << >>] >>),
      Stream("IsoIec14496_10AVCVideo", 101, << >>),
      Stream("IsoIec23008_2H265", 102, << >>) }

\* The PMTs given to pmt_to_video_pid and pmt_to_audio_pids: PCR on PID 101.
ProgramMapTables ==
    {[program_number |-> 1, pcr_pid |-> 101, program_info_descriptors |-> << >>,
      elementary_streams |-> es] :
        es \in UNION {[1..n -> ElementaryStreams] : n \in 0..MaxStreams}}

\* program_map: three television services; services 1 and 3 only; service 2 a
\* radio.
ProgramMaps ==
    { << TvProgram(1, 0), TvProgram(2, 10), TvProgram(3, 10) >>,
      << TvProgram(3, 10), TvProgram(1, 0) >>,
      << TvProgram(1, 10), RadioProgram(2), TvProgram(3, 0) >> }

Transponders ==
    {[frequency |-> 474166000, bandwidth |-> 8000000, system |-> system,
      service_description_table |-> sdt,
      network_information_table |-> nit,
      program_map |-> pm] :
        sdt \in SdtTables, nit \in NitTables, pm \in ProgramMaps}

VARIABLES
    pc,         \* position of the scan: "tune", "wait", "setup", "read", "compare",
                \* "insert", "done", "panicked", "blocked"; "wfl"/"wfl_done" when
                \* wait_for_lock is exercised on its own
    idx,        \* index of the candidate being scanned (for channel in frequencies)
    found,      \* found_transponders: transport_stream_id -> Transponder
    progress,   \* the values the callback cb was called with, in order
    result,     \* what scan_system returned: Some(set of Transponder), None before
    locks,      \* history: the result of wait_for_lock for each candidate so far
    obs,        \* history: (tsid, strength, frequency) of each observation compared
    ev,         \* the device operation of the last step, its outcome, and how many
                \* demuxers the acquisition round owned when it was made
    wTimeout,   \* wait_for_lock: timeout argument
    wPoll,      \* wait_for_lock: poll_interval argument
    elapsed,    \* wait_for_lock: Instant::now() - start_time
    wRet,       \* wait_for_lock: "loop" while looping, else "true" / "false" / "Err"
    sawLock,    \* history: some status poll of this call observed the lock bit
    round,      \* which acquisition round is running: "none", "pat", "batch"
    rTimeout,   \* receive_multiple_single_packets: timeout argument
    pairs,      \* receive_multiple_single_packets: the requested pairs
    demuxers,   \* receive_multiple_single_packets: demuxers set up and not yet read
    packets,    \* receive_multiple_single_packets: packets read so far / returned
    openFds,    \* number of demux device files currently open
    cur,        \* scan_channel locals after the PAT step: Some(record), else None
    call,       \* the function exercised on its own: "none" in a scan, else its name
    arg,        \* its argument
    loc,        \* its locals (loop position, result under construction)
    outcome     \* "running" until it is over, then "returned" or "panicked"

scanVars == <<idx, found, progress, result, locks, obs>>
waitVars == <<wTimeout, wPoll, elapsed, wRet, sawLock>>
roundVars == <<round, rTimeout, pairs, demuxers, packets, openFds, cur>>
callVars == <<call, arg, loc, outcome>>
vars == <<pc, ev, scanVars, waitVars, roundVars, callVars>>

EmptyMap == [t \in {} |-> None]

\* ------------------------------------------------- frontend: wait_for_lock
\* poll_interval.unwrap_or(Duration::from_millis(50))
poll_interval_or_default(poll_interval) ==
    IF poll_interval = None THEN DEFAULT_POLL_INTERVAL ELSE unwrap(poll_interval)

\* sleep(d) returns after at least d: here after d or 2 * d.
SleepTimes(poll_interval) ==
    LET d == poll_interval_or_default(poll_interval) IN {d, 2 * d}

\* Instant::now() - start_time when the timeout is tested: the time slept so
\* far, or a little more for the time the polls took.  With no timeout the
\* clock is not read.
ClockReads(timeout, slept_so_far) ==
    IF timeout = None THEN {slept_so_far} ELSE {slept_so_far, slept_so_far + 1}

\* Faulty variant: the timeout is tested before the status is looked at.
wait_for_lock_iter_timeout_first(timeout, now, status, slept) ==
    IF status = "err" THEN [ret |-> "Err", elapsed |-> now]
    ELSE IF timeout # None /\ now > unwrap(timeout) THEN [ret |-> "false", elapsed |-> now]
    ELSE IF status = "lock" THEN [ret |-> "true", elapsed |-> now]
    ELSE [ret |-> "loop", elapsed |-> IF timeout = None THEN now ELSE now + slept]

\* Faulty variant: the timeout is tested with >= instead of >.
wait_for_lock_iter_ge(timeout, now, status, slept) ==
    IF status = "err" THEN [ret |-> "Err", elapsed |-> now]
    ELSE IF status = "lock" THEN [ret |-> "true", elapsed |-> now]
    ELSE IF timeout # None /\ now >= unwrap(timeout) THEN [ret |-> "false", elapsed |-> now]
    ELSE [ret |-> "loop", elapsed |-> IF timeout = None THEN now ELSE now + slept]

\* One pass of the loop of wait_for_lock.  status is what self.status() gives
\* ("lock", "nolock", or "err" for a failed query), now is the time since
\* start_time when the timeout is tested, slept is how long the sleep lasts.
\* With no timeout the clock is never read, so it is not tracked.
wait_for_lock_iter(timeout, now, status, slept) ==
    IF status = "err" THEN [ret |-> "Err", elapsed |-> now]
    ELSE IF status = "lock" THEN [ret |-> "true", elapsed |-> now]
    ELSE IF timeout # None /\ now > unwrap(timeout) THEN [ret |-> "false", elapsed |-> now]
    ELSE [ret |-> "loop", elapsed |-> IF timeout = None THEN now ELSE now + slept]

\* ------------------------------------------------------ signal strength
\* SignalStrength::partial_cmp: strengths of one scale kind compare by value;
\* strengths of different scale kinds, and a strength that is not available
\* ("incompatible units or an outright failure"), do not compare.
partial_cmp(a, b) ==
    IF a.kind # b.kind \/ a.kind = "Unavailable" THEN "None"
    ELSE IF a.value > b.value THEN "Greater"
    ELSE IF a.value < b.value THEN "Less"
    ELSE "Equal"

\* ------------------------------------------------------------ demux.rs
\* Demux::filter_one: the section filter installed on a fresh demux handle.
\* timeout.map(|d| d.as_millis() as u32).unwrap_or(0)
filter_one(pair, timeout) ==
    [pid |-> pair.pid, table_id |-> pair.table_id,
     timeout |-> IF timeout = None THEN 0 ELSE unwrap(timeout)]

\* Faulty variant: the set-up loop hands over to the read loop after every filter.
setup_next_interleaved(installed, requested) == "read"

\* for pair in pairs { ... }: the set-up loop runs over every pair before the
\* read loop starts.
setup_next(installed, requested) ==
    IF Len(installed) = Len(requested) THEN "read" ELSE "setup"

\* Faulty variant: the read loop takes the demuxers from the back.
next_demuxer_back(ds) == Len(ds)

\* demuxers.into_iter(): the read loop takes the demuxers in the order they were
\* pushed.  The index of the demuxer to read next.
next_demuxer(ds) == 1

\* Faulty variant: only the handle being read is closed when the call returns early.
fds_after_return_leaky(fds, owned) == IF fds > 0 THEN fds - 1 ELSE 0

\* Leaving receive_multiple_single_packets (return, ? or unwinding) drops the
\* Vec / IntoIter of Demux and the one being read; dropping a Demux closes its
\* File.  owned is the number of Demux values the call still owns.
fds_after_return(fds, owned) == fds - owned

Remove(s, i) == [j \in 1..(Len(s) - 1) |-> IF j < i THEN s[j] ELSE s[j + 1]]

\* ----------------------------------------------------------- mpeg/mod.rs
\* PacketHeader::from_buf: if buf.len() < Self::BUF_LEN { panic!() }
from_buf_panics(len) == len < BUF_LEN

\* PacketHeader::payload_len: the section without the 5 header bytes after the
\* length field and the 4 CRC bytes.  The subtraction is one of u16: below 9 it
\* wraps around in a build without overflow checks (the value here) and panics
\* in a build with them.
payload_len(packet) == (packet.section_length - (5 + 4)) % 65536

payload_len_panics(packet) == packet.section_length < 5 + 4

\* u16::from_be_bytes([hi, lo])
from_be_bytes(hi, lo) == hi * 256 + lo

\* PacketHeader::from_buf: panics on a buffer of less than BUF_LEN bytes, on the
\* bits 0b0000_1100 of buf[1] and on a section_length above 0x3FD; else the
\* header fields (buf is 0-based in the code).
PacketHeader_from_buf(buf) ==
    IF from_buf_panics(Len(buf))
    THEN [panicked |-> TRUE, header |-> None]
    ELSE LET section_length == from_be_bytes(buf[2] % 4, buf[3]) IN
         IF (buf[2] \div 4) % 4 # 0 \/ ~(section_length <= 1021)
         THEN [panicked |-> TRUE, header |-> None]
         ELSE [panicked |-> FALSE,
               header |-> Some([table_id |-> buf[1],
                                section_syntax_indicator |-> buf[2] \div 128 = 1,
                                section_length |-> section_length,
                                identifier |-> from_be_bytes(buf[4], buf[5]),
                                version_number |-> (buf[6] \div 2) % 32 * 2,
                                current_next_indicator |-> buf[6] % 2 = 1,
                                section_number |-> buf[7],
                                last_section_number |-> buf[8]])]

\* ------------------------------------------------ mpeg/descriptors/mod.rs
\* The tags Descriptor::read has an arm for.
KnownDescriptorIds ==
    {iso639_language_DESCRIPTOR_ID,
     carousel_identifier_DESCRIPTOR_ID,
     network_name_DESCRIPTOR_ID,
     service_list_DESCRIPTOR_ID,
     service_DESCRIPTOR_ID,
     stream_identifier_DESCRIPTOR_ID,
     component_DESCRIPTOR_ID,
     terrestrial_delivery_system_DESCRIPTOR_ID,
     subtitling_DESCRIPTOR_ID,
     private_data_specifier_DESCRIPTOR_ID,
     data_broadcast_id_DESCRIPTOR_ID,
     ac3_DESCRIPTOR_ID,
     application_signalling_DESCRIPTOR_ID,
     enhanced_ac3_DESCRIPTOR_ID,
     extension_DESCRIPTOR_ID,
     logical_channel_DESCRIPTOR_ID}

\* The variant each arm of Descriptor::read builds.
VariantOf ==
    [id \in KnownDescriptorIds |->
        CASE id = iso639_language_DESCRIPTOR_ID -> "Iso639Language"
          [] id = carousel_identifier_DESCRIPTOR_ID -> "CarouselIdentifier"
          [] id = network_name_DESCRIPTOR_ID -> "NetworkName"
          [] id = service_list_DESCRIPTOR_ID -> "ServiceList"
          [] id = service_DESCRIPTOR_ID -> "Service"
          [] id = stream_identifier_DESCRIPTOR_ID -> "StreamIdentifier"
          [] id = component_DESCRIPTOR_ID -> "Component"
          [] id = terrestrial_delivery_system_DESCRIPTOR_ID -> "TerrestrialDeliverySystem"
          [] id = subtitling_DESCRIPTOR_ID -> "Subtitling"
          [] id = private_data_specifier_DESCRIPTOR_ID -> "PrivateDataSpecifier"
          [] id = data_broadcast_id_DESCRIPTOR_ID -> "DataBroadcastId"
          [] id = ac3_DESCRIPTOR_ID -> "Ac3"
          [] id = application_signalling_DESCRIPTOR_ID -> "ApplicationSignalling"
          [] id = enhanced_ac3_DESCRIPTOR_ID -> "EnhancedAc3"
          [] id = extension_DESCRIPTOR_ID -> "Extension"
          [] id = logical_channel_DESCRIPTOR_ID -> "LogicalChannel"]

\* ServiceList::from_buf: records of 3 bytes (service_id, service_type); indexing
\* past the end of buf panics.
RECURSIVE ServiceList_from_buf_loop(_, _, _)
ServiceList_from_buf_loop(buf, offset, services) ==
    IF offset < Len(buf)
    THEN IF offset + 3 > Len(buf)
         THEN [panicked |-> TRUE, services |-> services]
         ELSE ServiceList_from_buf_loop(buf, offset + 3,
                  Append(services,
                         [service_id |-> from_be_bytes(buf[offset + 1], buf[offset + 2]),
                          service_type |-> buf[offset + 3]]))
    ELSE [panicked |-> FALSE, services |-> services]

\* Descriptor::read: a known tag is decoded by its from_buf (NetworkName and
\* ServiceList in full; the other variants keep the bytes their from_buf is
\* given), any other tag gives _Unknown with the tag and a copy of the bytes.
Descriptor_read(descriptor_id, buf) ==
    IF descriptor_id \notin KnownDescriptorIds
    THEN [panicked |-> FALSE,
          value |-> [variant |-> "_Unknown", descriptor_id |-> descriptor_id,
                     raw_data |-> buf]]
    ELSE IF descriptor_id = service_list_DESCRIPTOR_ID
    THEN LET r == ServiceList_from_buf_loop(buf, 0, << >>) IN
         [panicked |-> r.panicked,
          value |-> [variant |-> "ServiceList", services |-> r.services]]
    ELSE IF descriptor_id = network_name_DESCRIPTOR_ID
    THEN [panicked |-> FALSE, value |-> [variant |-> "NetworkName", name |-> buf]]
    ELSE [panicked |-> FALSE, value |-> [variant |-> VariantOf[descriptor_id], buf |-> buf]]

\* Descriptor::descriptor_id: the tag each variant answers with.
descriptor_id(d) ==
    CASE d.variant = "Iso639Language" -> iso639_language_DESCRIPTOR_ID
      [] d.variant = "CarouselIdentifier" -> carousel_identifier_DESCRIPTOR_ID
      [] d.variant = "NetworkName" -> network_name_DESCRIPTOR_ID
      [] d.variant = "ServiceList" -> service_list_DESCRIPTOR_ID
      [] d.variant = "Service" -> service_DESCRIPTOR_ID
      [] d.variant = "Component" -> component_DESCRIPTOR_ID
      [] d.variant = "StreamIdentifier" -> stream_identifier_DESCRIPTOR_ID
      [] d.variant = "Subtitling" -> subtitling_DESCRIPTOR_ID
      [] d.variant = "TerrestrialDeliverySystem" -> terrestrial_delivery_system_DESCRIPTOR_ID
      [] d.variant = "PrivateDataSpecifier" -> private_data_specifier_DESCRIPTOR_ID
      [] d.variant = "DataBroadcastId" -> data_broadcast_id_DESCRIPTOR_ID
      [] d.variant = "Ac3" -> ac3_DESCRIPTOR_ID
      [] d.variant = "ApplicationSignalling" -> application_signalling_DESCRIPTOR_ID
      [] d.variant = "EnhancedAc3" -> enhanced_ac3_DESCRIPTOR_ID
      [] d.variant = "Extension" -> extension_DESCRIPTOR_ID
      [] d.variant = "LogicalChannel" -> extension_DESCRIPTOR_ID
      [] d.variant = "_Unknown" -> d.descriptor_id

\* char::is_control, for the bytes of an ASCII text.
is_control(b) == b < 32 \/ b = 127

\* decode_stupid_string: the text with the control characters at its two ends
\* trimmed off.
RECURSIVE decode_stupid_string(_)
decode_stupid_string(raw_text) ==
    IF raw_text = << >> THEN << >>
    ELSE IF is_control(raw_text[1]) THEN decode_stupid_string(Tail(raw_text))
    ELSE IF is_control(raw_text[Len(raw_text)])
         THEN decode_stupid_string(SubSeq(raw_text, 1, Len(raw_text) - 1))
    ELSE raw_text

\* Faulty variant: a descriptor with an unknown tag is skipped.
read_many_iter_skip_unknown(buf, offset, descriptors) ==
    IF offset + 2 > Len(buf) \/ offset + 2 + buf[offset + 2] > Len(buf)
    THEN [panicked |-> TRUE, offset |-> offset, descriptors |-> descriptors]
    ELSE LET length == buf[offset + 2]
             r == Descriptor_read(buf[offset + 1],
                                  SubSeq(buf, offset + 3, offset + 2 + length))
         IN  [panicked |-> r.panicked,
              offset |-> offset + 2 + length,
              descriptors |-> IF r.panicked \/ r.value.variant = "_Unknown"
                              THEN descriptors
                              ELSE Append(descriptors, r.value)]

\* One pass of the while loop of Descriptor::read_many at offset (0-based as in
\* the code): tag, length, then length bytes handed to Descriptor::read.  An
\* index or a slice past the end of buf panics.
read_many_iter(buf, offset, descriptors) ==
    IF offset + 2 > Len(buf) \/ offset + 2 + buf[offset + 2] > Len(buf)
    THEN [panicked |-> TRUE, offset |-> offset, descriptors |-> descriptors]
    ELSE LET length == buf[offset + 2]
             r == Descriptor_read(buf[offset + 1],
                                  SubSeq(buf, offset + 3, offset + 2 + length))
         IN  [panicked |-> r.panicked,
              offset |-> offset + 2 + length,
              descriptors |-> IF r.panicked THEN descriptors
                              ELSE Append(descriptors, r.value)]

\* while offset < buf.len() { ... }
RECURSIVE read_many_loop(_, _, _)
read_many_loop(buf, offset, descriptors) ==
    IF offset < Len(buf)
    THEN LET r == read_many_iter(buf, offset, descriptors) IN
         IF r.panicked THEN r ELSE read_many_loop(buf, r.offset, r.descriptors)
    ELSE [panicked |-> FALSE, offset |-> offset, descriptors |-> descriptors]

\* Descriptor::read_many returns the descriptors, unless it panicked on the way.
read_many(buf) == read_many_loop(buf, 0, << >>).descriptors

read_many_panics(buf) == read_many_loop(buf, 0, << >>).panicked

\* ------------------------------------------------------------ bands.rs
\* Bandwidth::value, in Hz.
bandwidth_value ==
    [b \in {"_1_172MHz", "_5MHz", "_6MHz", "_7MHz", "_8MHz", "_10MHz"} |->
        CASE b = "_1_172MHz" -> 1712000
          [] b = "_5MHz" -> 5000000
          [] b = "_6MHz" -> 6000000
          [] b = "_7MHz" -> 7000000
          [] b = "_8MHz" -> 8000000
          [] b = "_10MHz" -> 10000000]

\* Faulty variant: the iterator stops one channel early.
FrequencyIter_next_short(band, current_channel) ==
    IF current_channel >= band.last_channel THEN None
    ELSE Some([frequency |->
                   band.first_frequency
                   + (current_channel - band.first_channel)
                     * bandwidth_value[band.bandwidth],
               bandwidth |-> band.bandwidth,
               number |-> Some(current_channel),
               display_prefix |-> band.display_prefix])

\* FrequencyIter::next: None past last_channel, else the ChannelParameters of
\* current_channel; the caller's current_channel goes up by 1. The u32
\* arithmetic never wraps on BroadcastBands (every frequency is below 2^30).
FrequencyIter_next(band, current_channel) ==
    IF current_channel > band.last_channel THEN None
    ELSE Some([frequency |->
                   band.first_frequency
                   + (current_channel - band.first_channel)
                     * bandwidth_value[band.bandwidth],
               bandwidth |-> band.bandwidth,
               number |-> Some(current_channel),
               display_prefix |-> band.display_prefix])

\* -------------------------------------------------------- interpret.rs
\* The smallest element of a nonempty set of positions.
MinOf(S) == CHOOSE x \in S : \A y \in S : x <= y

\* StreamType::to_u8, for the stream types that occur here.
to_u8 ==
    [st \in {"IsoIec11172Video",
             "ItuTRecH262IsoIec13818_2VideoOrIsoIec11172_2ConstrainedParameterVideoStream",
             "IsoIec11172Audio", "IsoIec13818_3Audio",
             "ItuTRecH2220IsoIec13818_1PrivateSections",
             "ItuTRecH2220IsoIec13818_1PESPacketsContainingPrivateData",
             "IsoIec13818_6TypeB",
             "IsoIec14496_10AVCVideo", "IsoIec23008_2H265"} |->
        CASE st = "IsoIec11172Video" -> 1
          [] st = "ItuTRecH262IsoIec13818_2VideoOrIsoIec11172_2ConstrainedParameterVideoStream" -> 2
          [] st = "IsoIec11172Audio" -> 3
          [] st = "IsoIec13818_3Audio" -> 4
          [] st = "ItuTRecH2220IsoIec13818_1PrivateSections" -> 5
          [] st = "ItuTRecH2220IsoIec13818_1PESPacketsContainingPrivateData" -> 6
          [] st = "IsoIec13818_6TypeB" -> 11
          [] st = "IsoIec14496_10AVCVideo" -> 27
          [] st = "IsoIec23008_2H265" -> 36]

\* StreamType::is_video
is_video(stream_type) ==
    stream_type \in
        {"IsoIec11172Video",
         "ItuTRecH262IsoIec13818_2VideoOrIsoIec11172_2ConstrainedParameterVideoStream",
         "IsoIec14496_10AVCVideo", "IsoIec23008_2H265"}

\* The first Descriptor::Service among the descriptors of an SDT service.
find_service_descriptor(service) ==
    LET hits == {i \in DOMAIN service.descriptors :
                    service.descriptors[i].variant = "Service"}
    IN  IF hits = {} THEN None ELSE Some(service.descriptors[MinOf(hits)])

\* find_nit_element_by_service_id: the first NIT element one of whose
\* ServiceList descriptors lists service_id.
find_nit_element_by_service_id(nit, service_id) ==
    LET hits == {i \in DOMAIN nit.elements :
                    \E k \in DOMAIN nit.elements[i].transport_descriptors :
                        LET d == nit.elements[i].transport_descriptors[k] IN
                        /\ d.variant = "ServiceList"
                        /\ \E j \in DOMAIN d.services : d.services[j].service_id = service_id}
    IN  IF hits = {} THEN None ELSE Some(nit.elements[MinOf(hits)])

\* find_lcn_from_nit_element_by_service_id: the number of the first entry for
\* service_id in the first LogicalChannel descriptor that has one.
find_lcn_from_nit_element_by_service_id(nit_elements, service_id) ==
    LET ds == nit_elements.transport_descriptors
        Entries(k) == {j \in DOMAIN ds[k].elements :
                          ds[k].elements[j].service_id = service_id}
        hits == {k \in DOMAIN ds : ds[k].variant = "LogicalChannel" /\ Entries(k) # {}}
    IN  IF hits = {} THEN None
        ELSE LET k == MinOf(hits) IN
             Some(ds[k].elements[MinOf(Entries(k))].logical_channel_number)

\* find_pmt_by_service_id: program_map.iter().find(|e| e.program_number == service_id)
find_pmt_by_service_id(program_map, service_id) ==
    LET hits == {i \in DOMAIN program_map : program_map[i].program_number = service_id}
    IN  IF hits = {} THEN None ELSE Some(program_map[MinOf(hits)])

\* Faulty variant: the last video stream is taken.
pmt_to_video_pid_last(pmt_element) ==
    LET es == pmt_element.elementary_streams
        hits == {i \in DOMAIN es : is_video(es[i].stream_type)}
    IN  IF hits = {} THEN None
        ELSE LET e == es[CHOOSE i \in hits : \A j \in hits : i >= j] IN
             Some([pcr_pid |-> pmt_element.pcr_pid,
                   video_pid |-> IF pmt_element.pcr_pid # e.elementary_pid
                                 THEN Some(e.elementary_pid) ELSE None,
                   video_mode |-> to_u8[e.stream_type]])

\* pmt_to_video_pid: the first elementary stream that is video, with the PCR
\* PID; the video PID is left out when it is the PCR PID.
pmt_to_video_pid(pmt_element) ==
    LET es == pmt_element.elementary_streams
        hits == {i \in DOMAIN es : is_video(es[i].stream_type)}
    IN  IF hits = {} THEN None
        ELSE LET e == es[MinOf(hits)] IN
             Some([pcr_pid |-> pmt_element.pcr_pid,
                   video_pid |-> IF pmt_element.pcr_pid # e.elementary_pid
                                 THEN Some(e.elementary_pid) ELSE None,
                   video_mode |-> to_u8[e.stream_type]])

\* The largest element of a nonempty set of positions.
MaxOf(S) == CHOOSE x \in S : \A y \in S : x >= y

\* pmt_to_audio_pids: the language code of a stream is that of its last
\* Iso639Language descriptor, the empty string when it has none.
language_code_of(elementary_stream) ==
    LET ds == elementary_stream.descriptors
        hits == {i \in DOMAIN ds : ds[i].variant = "Iso639Language"}
    IN  IF hits = {} THEN << >> ELSE decode_stupid_string(ds[MaxOf(hits)].language)

\* Faulty variant: a private stream counts as audio whatever its descriptors.
dolby_audio_type_any(elementary_stream) ==
    Some(to_u8[elementary_stream.stream_type])

\* pmt_to_audio_pids: the audio type of a private stream: the loop over its
\* descriptors breaks at the first Ac3 and otherwise keeps the last EnhancedAc3.
dolby_audio_type(elementary_stream) ==
    LET ds == elementary_stream.descriptors
        ac3s == {i \in DOMAIN ds : ds[i].variant = "Ac3"}
        eac3s == {i \in DOMAIN ds : ds[i].variant = "EnhancedAc3"}
    IN  IF ac3s # {} THEN Some(descriptor_id(ds[MinOf(ac3s)]))
        ELSE IF eac3s # {} THEN Some(descriptor_id(ds[MaxOf(eac3s)]))
        ELSE None

\* for elementary_stream in &pmt_element.elementary_streams { ... }
RECURSIVE pmt_to_audio_pids_loop(_, _, _, _)
pmt_to_audio_pids_loop(es, i, regular_pids, dolby_pids) ==
    IF i > Len(es)
    THEN [regular_pids |-> regular_pids, dolby_pids |-> dolby_pids]
    ELSE LET e == es[i]
             pid(audio_type) ==
                 [pid |-> e.elementary_pid,
                  language_code |-> language_code_of(e),
                  second_language_code |-> << >>,
                  audio_type |-> Some(audio_type)]
         IN  IF e.stream_type \in {"IsoIec11172Audio", "IsoIec13818_3Audio"}
             THEN pmt_to_audio_pids_loop(es, i + 1,
                      Append(regular_pids, pid(to_u8[e.stream_type])), dolby_pids)
             ELSE IF /\ e.stream_type \in
                          {"ItuTRecH2220IsoIec13818_1PrivateSections",
                           "ItuTRecH2220IsoIec13818_1PESPacketsContainingPrivateData"}
                     /\ dolby_audio_type(e) # None
             THEN pmt_to_audio_pids_loop(es, i + 1, regular_pids,
                      Append(dolby_pids, pid(unwrap(dolby_audio_type(e)))))
             ELSE pmt_to_audio_pids_loop(es, i + 1, regular_pids, dolby_pids)

pmt_to_audio_pids(pmt_element) ==
    pmt_to_audio_pids_loop(pmt_element.elementary_streams, 1, << >>, << >>)

\* The body of the loop of from_transponder over the SDT services: a service
\* without Service descriptor, NIT element or PMT is passed over; video_pid is
\* pmt_to_video_pid(pmt_element).unwrap(), which panics on None.
from_transponder_iter(transponder, service, channels) ==
    LET service_descriptor == find_service_descriptor(service)
        nit_element == find_nit_element_by_service_id(
                           transponder.network_information_table, service.service_id)
        pmt_element == find_pmt_by_service_id(transponder.program_map, service.service_id)
    IN  IF service_descriptor = None \/ nit_element = None \/ pmt_element = None
        THEN [panicked |-> FALSE, channels |-> channels]
        ELSE IF pmt_to_video_pid(unwrap(pmt_element)) = None
        THEN [panicked |-> TRUE, channels |-> channels]
        ELSE [panicked |-> FALSE,
              channels |->
                  Append(channels,
                         [frequency |-> transponder.frequency,
                          bandwidth |-> transponder.bandwidth,
                          delivery_system |-> transponder.system,
                          symbol_rate |-> None,
                          name |-> unwrap(service_descriptor).service,
                          logical_channel_number |->
                              find_lcn_from_nit_element_by_service_id(
                                  unwrap(nit_element), service.service_id),
                          service_id |-> service.service_id,
                          original_network_id |->
                              transponder.service_description_table.original_network_id,
                          transport_stream_id |-> unwrap(nit_element).transport_stream_id,
                          video_pid |-> unwrap(pmt_to_video_pid(unwrap(pmt_element))),
                          audio_pid_list |-> pmt_to_audio_pids(unwrap(pmt_element))])]

\* The closure sort_by_lcn sorts by: the Ordering of a against b.
lcn_cmp(a, b) ==
    IF a # None /\ b # None
    THEN IF unwrap(a) < unwrap(b) THEN "Less"
         ELSE IF unwrap(a) > unwrap(b) THEN "Greater" ELSE "Equal"
    ELSE IF a # None THEN "Greater"
    ELSE IF b # None THEN "Less"
    ELSE "Equal"

\* One step of the stable sort of slice::sort_by: x goes behind every element
\* of the sorted prefix that does not compare Greater than it.
sort_insert(sorted, x) ==
    LET k == Cardinality({i \in DOMAIN sorted :
                             lcn_cmp(sorted[i].logical_channel_number,
                                     x.logical_channel_number) # "Greater"})
    IN  SubSeq(sorted, 1, k) \o << x >> \o SubSeq(sorted, k + 1, Len(sorted))

\* ------------------------------------------------------------- scan.rs
\* Faulty variant: a lock failure is treated like a lock.
on_lock_result_ignored(ret) ==
    IF ret = "Err" THEN "panic" ELSE "continue"

\* if !frontend.wait_for_lock(Some(LOCK_TIMEOUT), None).unwrap() { return; }
on_lock_result(ret) ==
    IF ret = "Err" THEN "panic"
    ELSE IF ret = "false" THEN "return"
    ELSE "continue"

\* Faulty variant: a PAT timeout is fatal like any other error.
on_pat_error_all_fatal(kind) == "panic"

\* match e.kind() { TimedOut => return, _ => panic!() }
on_pat_error(kind) ==
    IF kind = "TimedOut" THEN "return" ELSE "panic"

\* Faulty variant: the batched acquisition error is swallowed and the candidate skipped.
on_batch_result_skip(res) ==
    IF res = "Ok" THEN "continue" ELSE "return"

\* receive_multiple_single_packets(demux_path, all_pairs, None).unwrap()
on_batch_result(res) ==
    IF res = "Ok" THEN "continue" ELSE "panic"

\* Faulty variant: an equally strong observation replaces the stored one.
strength_decision_ge(map, tsid, strength) ==
    IF tsid \notin DOMAIN map THEN "continue"
    ELSE LET o == partial_cmp(strength, map[tsid].strength) IN
         IF o = "None" THEN "panic"
         ELSE IF o \in {"Greater", "Equal"} THEN "continue"
         ELSE "return"

\* Faulty variant: the comparison is reversed, the weaker observation wins.
strength_decision_reversed(map, tsid, strength) ==
    IF tsid \notin DOMAIN map THEN "continue"
    ELSE LET o == partial_cmp(strength, map[tsid].strength) IN
         IF o = "None" THEN "panic"
         ELSE IF o = "Less" THEN "continue"
         ELSE "return"

\* Faulty variant: strengths that do not compare count as weaker.
strength_decision_none_weaker(map, tsid, strength) ==
    IF tsid \notin DOMAIN map THEN "continue"
    ELSE LET o == partial_cmp(strength, map[tsid].strength) IN
         IF o = "Greater" THEN "continue"
         ELSE "return"

\* Faulty variant: an observation is never discarded.
strength_decision_keep_all(map, tsid, strength) ==
    IF tsid \notin DOMAIN map THEN "continue"
    ELSE LET o == partial_cmp(strength, map[tsid].strength) IN
         IF o = "None" THEN "panic"
         ELSE "continue"

\* The comparison with a previously found transponder of the same
\* transport_stream_id: Greater goes on, Less / Equal returns, None panics.
strength_decision(map, tsid, strength) ==
    IF tsid \notin DOMAIN map THEN "continue"
    ELSE LET o == partial_cmp(strength, map[tsid].strength) IN
         IF o = "None" THEN "panic"
         ELSE IF o = "Greater" THEN "continue"
         ELSE "return"

\* Faulty variant: the reserved bits are not masked off the pid and the kind is
\* decided on the pid.
PatElement_unmasked(b0, b1, b2, b3) ==
    [program_number |-> from_be_bytes(b0, b1),
     value |-> [kind |-> IF from_be_bytes(b2, b3) = 0 THEN "Network" ELSE "ProgramMap",
                pid |-> from_be_bytes(b2, b3)]]

\* The PatElement parse_pat builds from one record of 4 bytes: program_number 0
\* announces the network PID, any other a PMT PID.
PatElement(b0, b1, b2, b3) ==
    [program_number |-> from_be_bytes(b0, b1),
     value |-> [kind |-> IF from_be_bytes(b0, b1) = 0 THEN "Network" ELSE "ProgramMap",
                pid |-> from_be_bytes(b2 % 32, b3)]]

\* One pass of the while loop of parse_pat at current_offset (0-based as in the
\* code): indexing packet.data past its end panics.
parse_pat_iter(packet, current_offset, elements) ==
    IF current_offset + 4 > Len(packet.data)
    THEN [panicked |-> TRUE, current_offset |-> current_offset, elements |-> elements]
    ELSE [panicked |-> FALSE,
          current_offset |-> current_offset + 4,
          elements |-> Append(elements,
                              PatElement(packet.data[current_offset + 1],
                                         packet.data[current_offset + 2],
                                         packet.data[current_offset + 3],
                                         packet.data[current_offset + 4]))]

\* while (current_offset as u16) < packet.header.payload_len() { ... }
RECURSIVE parse_pat_loop(_, _, _)
parse_pat_loop(packet, current_offset, elements) ==
    IF current_offset < payload_len(packet)
    THEN LET r == parse_pat_iter(packet, current_offset, elements) IN
         IF r.panicked THEN r
         ELSE parse_pat_loop(packet, r.current_offset, r.elements)
    ELSE [panicked |-> FALSE, current_offset |-> current_offset, elements |-> elements]

\* parse_pat returns the elements, unless an index panicked on the way.
parse_pat(packet) == parse_pat_loop(packet, 0, << >>).elements

parse_pat_panics(packet) == parse_pat_loop(packet, 0, << >>).panicked

\* Faulty variant: the SDT request is pushed first.
all_pairs_sdt_first(pat_entries) ==
    << [pid |-> SDT_PID, table_id |-> SDT_ACTUAL_TRANSPORT_TABLE_ID] >>
    \o [i \in 1..Len(pat_entries) |->
           [pid |-> pat_entries[i].value.pid,
            table_id |-> IF pat_entries[i].value.kind = "Network"
                         THEN NIT_ACTUAL_NETWORK_TABLE_ID ELSE PMT_TABLE_ID]]

\* all_pairs: one request per PAT entry, then the SDT request.
all_pairs(pat_entries) ==
    [i \in 1..Len(pat_entries) |->
        [pid |-> pat_entries[i].value.pid,
         table_id |-> IF pat_entries[i].value.kind = "Network"
                      THEN NIT_ACTUAL_NETWORK_TABLE_ID ELSE PMT_TABLE_ID]]
    \o << [pid |-> SDT_PID, table_id |-> SDT_ACTUAL_TRANSPORT_TABLE_ID] >>

\* The positions in all_pairs of the requests pushed for PAT entries of a kind,
\* in PAT order.
indices_of(pat_entries, kind) ==
    LET F[i \in 0..Len(pat_entries)] ==
        IF i = 0 THEN << >>
        ELSE IF pat_entries[i].value.kind = kind THEN Append(F[i - 1], i) ELSE F[i - 1]
    IN F[Len(pat_entries)]

\* nit_indices / pmt_indices / sdt_index: positions in all_pairs.
nit_indices(pat_entries) == indices_of(pat_entries, "Network")

pmt_indices(pat_entries) == indices_of(pat_entries, "ProgramMap")

sdt_index(pat_entries) == Len(pat_entries) + 1

\* NetworkInformation::from_packet, ProgramMap::from_packet,
\* ServiceDescription::from_packet: the decoded table keeps where it came from.
nit_from_packet(p) == [table |-> "NIT", pid |-> p.pid, freq |-> p.freq]
pmt_from_packet(p) ==
    [table |-> "PMT", program_number |-> p.identifier, pid |-> p.pid, freq |-> p.freq]

\* One pass of the while loop of ServiceDescription::from_packet at offset
\* (0-based as in the code): 5 bytes of service header, then descriptors_length
\* bytes given to Descriptor::read_many.
sdt_service_iter(packet, offset, services) ==
    IF offset + 5 > Len(packet.data)
    THEN [panicked |-> TRUE, offset |-> offset, services |-> services]
    ELSE LET flags == packet.data[offset + 3]
             status == packet.data[offset + 4]
             descriptors_length == from_be_bytes(status % 16, packet.data[offset + 5])
         IN  IF offset + 5 + descriptors_length > Len(packet.data)
             THEN [panicked |-> TRUE, offset |-> offset, services |-> services]
             ELSE LET r == read_many_loop(SubSeq(packet.data, offset + 6,
                                                 offset + 5 + descriptors_length),
                                          0, << >>)
                  IN  [panicked |-> r.panicked,
                       offset |-> offset + 5 + descriptors_length,
                       services |->
                           Append(services,
                                  [service_id |-> from_be_bytes(packet.data[offset + 1],
                                                                packet.data[offset + 2]),
                                   eit_schedule |-> (flags \div 2) % 2 = 1,
                                   eit_present_following |-> flags % 2 = 1,
                                   running_status |-> status \div 32,
                                   free_ca_mode |-> (status \div 16) % 2 = 1,
                                   descriptors |-> r.descriptors])]

\* while offset < (packet.header.payload_len() as usize) { ... }
RECURSIVE sdt_service_loop(_, _, _)
sdt_service_loop(packet, offset, services) ==
    IF offset < payload_len(packet)
    THEN LET r == sdt_service_iter(packet, offset, services) IN
         IF r.panicked THEN r ELSE sdt_service_loop(packet, r.offset, r.services)
    ELSE [panicked |-> FALSE, offset |-> offset, services |-> services]

\* ServiceDescription::from_packet panics when packet.data has no room for the
\* 3 bytes before the services, or in the loop over the services.
sdt_from_packet_panics(p) ==
    \/ Len(p.data) < 3
    \/ sdt_service_loop(p, 3, << >>).panicked

sdt_from_packet(p) ==
    [table |-> "SDT", pid |-> p.pid, freq |-> p.freq,
     original_network_id |-> from_be_bytes(p.data[1], p.data[2]),
     services |-> sdt_service_loop(p, 3, << >>).services]

\* Faulty variant: the NIT of the first nit index is kept.
last_nit_first(c, ps) ==
    LET ni == nit_indices(c.pat_entries) IN
    IF ni = << >> THEN None ELSE Some(nit_from_packet(ps[ni[1]]))

\* The Transponder scan_channel builds from the received packets; the NIT is the
\* one of the last nit index (None when the PAT announced no network PID, where
\* nit.unwrap() panics).
last_nit(c, ps) ==
    LET ni == nit_indices(c.pat_entries) IN
    IF ni = << >> THEN None ELSE Some(nit_from_packet(ps[ni[Len(ni)]]))

new_transponder(channel, c, ps) ==
    [frequency |-> channel.frequency,
     system |-> system,
     bandwidth |-> channel.bandwidth,
     strength |-> c.strength,
     program_map |-> LET pi == pmt_indices(c.pat_entries) IN
                     [k \in 1..Len(pi) |-> pmt_from_packet(ps[pi[k]])],
     service_description |-> sdt_from_packet(ps[sdt_index(c.pat_entries)]),
     network_information |-> unwrap(last_nit(c, ps))]

\* Faulty variant: a replacement keeps the tables of the Transponder stored
\* before.
insert_keep_tables(map, key, value) ==
    [t \in DOMAIN map \cup {key} |->
        IF t # key THEN map[t]
        ELSE IF key \in DOMAIN map
        THEN [value EXCEPT !.program_map = map[key].program_map,
                           !.service_description = map[key].service_description,
                           !.network_information = map[key].network_information]
        ELSE value]

\* found_transponders.insert(transport_stream_id, Transponder { .. })
insert(map, key, value) ==
    [t \in DOMAIN map \cup {key} |-> IF t = key THEN value ELSE map[t]]

\* found_transponders.into_values().collect()
into_values(map) == {map[t] : t \in DOMAIN map}

\* ------------------------------------------------------- the environment
\* The channel being scanned.
channel == frequencies[idx]

\* What a blocking read on a section filter can do.  A filter with a timeout
\* (in ms) fails with TimedOut when no section came in time; a filter whose
\* timeout is 0 has none and waits for as long as no section comes ("Never").
\* A read may also return Ok(0), no byte at all ("Zero").
ReadOutcomes(d) ==
    {"Ok", "Zero", "Other"} \cup (IF d.timeout > 0 THEN {"TimedOut"} ELSE {"Never"})

\* program_number of the PAT entry announcing a pid (PMT sections carry it as
\* their identifier).
program_of(entries, pid) ==
    LET hits == {i \in DOMAIN entries : entries[i].value.pid = pid} IN
    IF hits = {} THEN 0
    ELSE entries[CHOOSE i \in hits : \A j \in hits : i <= j].program_number

\* The sections the tuned multiplex can deliver to a filter: a section of the
\* filtered PID whose first byte is the filtered table id.
HwPackets(d) ==
    IF round = "pat"
    THEN {[pid |-> d.pid, table_id |-> d.table_id, freq |-> channel.frequency,
           identifier |-> t, section_length |-> Len(e) + (5 + 4), data |-> e] :
              t \in TSIDs, e \in PatPayloads}
    ELSE {[pid |-> d.pid, table_id |-> d.table_id, freq |-> channel.frequency,
           identifier |-> IF d.table_id = PMT_TABLE_ID
                          THEN program_of(unwrap(cur).pat_entries, d.pid)
                          ELSE unwrap(cur).transport_stream_id,
           section_length |-> Len(e) + (5 + 4), data |-> e] :
              e \in IF d.table_id = SDT_ACTUAL_TRANSPORT_TABLE_ID
                    THEN SdtPayloads ELSE {<< >>}}

\* ------------------------------------------------------------ transitions
\* No function is exercised on its own.
NoCall ==
    /\ call = "none"
    /\ arg = None
    /\ loc = None
    /\ outcome = "none"

Init ==
    /\ pc = "tune"
    /\ idx = 1
    /\ found = EmptyMap
    /\ progress = << >>
    /\ result = None
    /\ locks = << >>
    /\ obs = << >>
    /\ ev = [op |-> "start", round |-> "none", res |-> "ok", owned |-> 0]
    /\ wTimeout = None
    /\ wPoll = None
    /\ elapsed = 0
    /\ wRet = "idle"
    /\ sawLock = FALSE
    /\ round = "none"
    /\ rTimeout = None
    /\ pairs = << >>
    /\ demuxers = << >>
    /\ packets = << >>
    /\ openFds = 0
    /\ cur = None
    /\ NoCall

\* The locals of scan_channel go away.
DropLocals ==
    /\ round' = "none"
    /\ rTimeout' = None
    /\ pairs' = << >>
    /\ demuxers' = << >>
    /\ packets' = << >>
    /\ cur' = None

\* A panic unwinds out of scan_system: nothing is returned.
Panic ==
    /\ pc' = "panicked"
    /\ DropLocals
    /\ UNCHANGED <<idx, found, progress, result>>

\* Faulty variant: the callback is called with the number of transponders found
\* before the step.
ChannelDone_stale_count(map) ==
    /\ found' = map
    /\ progress' = Append(progress, Cardinality(DOMAIN found))
    /\ idx' = idx + 1
    /\ IF idx = Len(frequencies)
       THEN pc' = "done" /\ result' = Some(into_values(map))
       ELSE pc' = "tune" /\ result' = result
    /\ DropLocals

\* scan_channel returns with found_transponders = map; scan_system calls
\* cb(found_transponders.len()) and goes to the next channel, or returns the
\* values of the map after the last one.
ChannelDone(map) ==
    /\ found' = map
    /\ progress' = Append(progress, Cardinality(DOMAIN map))
    /\ idx' = idx + 1
    /\ IF idx = Len(frequencies)
       THEN pc' = "done" /\ result' = Some(into_values(map))
       ELSE pc' = "tune" /\ result' = result
    /\ DropLocals

\* frontend.tune(frequency, system, bandwidth).unwrap(), then the call of
\* wait_for_lock(Some(LOCK_TIMEOUT), None) starts.
Tune ==
    /\ pc = "tune"
    /\ UNCHANGED callVars
    /\ \E r \in {"ok", "err"} :
        /\ ev' = [op |-> "tune", round |-> "none", res |-> r, owned |-> 0]
        /\ IF r = "err"
           THEN /\ Panic
                /\ UNCHANGED <<waitVars, openFds>>
           ELSE /\ pc' = "wait"
                /\ wTimeout' = Some(LOCK_TIMEOUT)
                /\ wPoll' = None
                /\ elapsed' = 0
                /\ wRet' = "loop"
                /\ sawLock' = FALSE
                /\ UNCHANGED <<idx, found, progress, result, roundVars>>
    /\ UNCHANGED <<locks, obs>>

\* One pass of the loop of wait_for_lock inside scan_channel, and what
\* scan_channel does when the call returns.
WaitForLock ==
    /\ pc = "wait"
    /\ UNCHANGED callVars
    /\ \E status \in {"lock", "nolock", "err"}, slept \in SleepTimes(wPoll) :
        LET r == wait_for_lock_iter(wTimeout, elapsed, status, slept)
            todo == on_lock_result(r.ret)
        IN  /\ ev' = [op |-> "status", round |-> "none", res |-> status, owned |-> 0]
            /\ wRet' = r.ret
            /\ UNCHANGED <<wTimeout, wPoll, obs, openFds>>
            /\ IF r.ret = "loop"
               THEN /\ elapsed' = r.elapsed
                    /\ sawLock' = (sawLock \/ status = "lock")
                    /\ UNCHANGED <<pc, idx, found, progress, result, locks,
                                   round, rTimeout, pairs, demuxers, packets, cur>>
               ELSE \* the call is over, its locals are gone
                    /\ elapsed' = 0
                    /\ sawLock' = FALSE
                    /\ locks' = IF r.ret = "Err" THEN locks
                                ELSE Append(locks, r.ret = "true")
                    /\ CASE todo = "panic" -> Panic
                         [] todo = "return" -> ChannelDone(found)
                         [] todo = "continue" ->
                              \* receive_single_packet(demux_path, PAT_PID,
                              \*     Some(PAT_TABLE_ID), Some(PAT_TIMEOUT))
                              /\ pc' = "setup"
                              /\ round' = "pat"
                              /\ rTimeout' = Some(PAT_TIMEOUT)
                              /\ pairs' = << [pid |-> PAT_PID, table_id |-> PAT_TABLE_ID] >>
                              /\ demuxers' = << >>
                              /\ packets' = << >>
                              /\ cur' = None
                              /\ UNCHANGED <<idx, found, progress, result>>

\* receive_multiple_single_packets returns Err(kind) to scan_channel, still
\* owning `owned` demuxers.
RoundFailed(kind, owned) ==
    LET todo == IF round = "pat" THEN on_pat_error(kind) ELSE on_batch_result("Err")
    IN  /\ openFds' = fds_after_return(openFds, owned)
        /\ IF todo = "return" THEN ChannelDone(found) ELSE Panic

\* receive_multiple_single_packets returns Ok(ps) to scan_channel.
RoundOk(ps) ==
    /\ pc' = IF round = "pat" THEN "compare"
             ELSE IF on_batch_result("Ok") = "continue" THEN "insert" ELSE "panicked"
    /\ UNCHANGED <<idx, found, progress, result, round, rTimeout, pairs, cur>>

\* One pass of the set-up loop: Demux::new(demux_path)? and filter_one.
SetupFilter ==
    /\ pc = "setup"
    /\ UNCHANGED callVars
    /\ Len(demuxers) < Len(pairs)
    /\ \E open \in {"ok", "err"}, setf \in {"ok", "err"} :
        IF open = "err"
        THEN /\ ev' = [op |-> "open", round |-> round, res |-> "Other", owned |-> Len(demuxers)]
             /\ RoundFailed("Other", Len(demuxers))
        ELSE IF setf = "err"
        THEN \* set_filter(..).unwrap() panics; unwinding drops every Demux
             /\ ev' = [op |-> "set_filter", round |-> round, res |-> "panic", owned |-> Len(demuxers)]
             /\ openFds' = fds_after_return(openFds + 1, Len(demuxers) + 1)
             /\ Panic
        ELSE /\ ev' = [op |-> "set_filter", round |-> round, res |-> "ok", owned |-> Len(demuxers)]
             /\ demuxers' = Append(demuxers, filter_one(pairs[Len(demuxers) + 1], rTimeout))
             /\ openFds' = openFds + 1
             /\ pc' = setup_next(demuxers', pairs)
             /\ UNCHANGED <<idx, found, progress, result, round, rTimeout, pairs,
                            packets, cur>>
    /\ UNCHANGED <<locks, obs, waitVars>>

\* One pass of the read loop: demux.read_one_packet()?, the Demux is dropped at
\* the end of the pass.
ReadPacket ==
    /\ pc = "read"
    /\ UNCHANGED callVars
    /\ demuxers # << >>
    /\ LET i == next_demuxer(demuxers)
           d == demuxers[i]
           rest == Remove(demuxers, i)
       IN \E out \in ReadOutcomes(d) :
            /\ ev' = [op |-> "read", round |-> round, res |-> out, owned |-> Len(demuxers)]
            /\ CASE out = "Ok" ->
                      \E pkt \in HwPackets(d) :
                        /\ packets' = Append(packets, pkt)
                        /\ demuxers' = rest
                        /\ openFds' = openFds - 1
                        /\ IF rest = << >>
                           THEN RoundOk(packets')
                           ELSE /\ pc' = "read"
                                /\ UNCHANGED <<idx, found, progress, result, round,
                                               rTimeout, pairs, cur>>
                 [] out = "Zero" ->
                      \* Ok(Packet::from_buf(&buf)) with an empty buf
                      \* panics in PacketHeader::from_buf; unwinding drops
                      \* every Demux
                      /\ from_buf_panics(0)
                      /\ openFds' = fds_after_return(openFds, Len(demuxers))
                      /\ Panic
                 [] out \in {"TimedOut", "Other"} ->
                      RoundFailed(out, Len(demuxers))
                 [] out = "Never" ->
                      /\ pc' = "blocked"
                      /\ UNCHANGED <<idx, found, progress, result, roundVars>>
    /\ UNCHANGED <<locks, obs, waitVars>>

\* parse_pat, frontend.signal_strength().unwrap(), the comparison with the
\* transponder found before, and the building of all_pairs.
Compare ==
    /\ pc = "compare"
    /\ UNCHANGED callVars
    /\ UNCHANGED <<locks, waitVars, openFds>>
    /\ \/ /\ parse_pat_panics(packets[1])
          /\ ev' = [op |-> "decode", round |-> "pat", res |-> "failed", owned |-> 0]
          /\ Panic
          /\ UNCHANGED obs
       \/ /\ ~parse_pat_panics(packets[1])
          /\ ev' = [op |-> "signal_strength", round |-> "none", res |-> "err", owned |-> 0]
          /\ Panic
          /\ UNCHANGED obs
       \/ /\ ~parse_pat_panics(packets[1])
          /\ \E strength \in Strengths :
            LET packet == packets[1]
                pat_entries == parse_pat(packet)
                transport_stream_id == packet.identifier
                todo == strength_decision(found, transport_stream_id, strength)
            IN  /\ ev' = [op |-> "signal_strength", round |-> "none", res |-> "ok", owned |-> 0]
                /\ obs' = Append(obs, [tsid |-> transport_stream_id,
                                       strength |-> strength,
                                       frequency |-> channel.frequency])
                /\ CASE todo = "panic" -> Panic
                     [] todo = "return" -> ChannelDone(found)
                     [] todo = "continue" ->
                          /\ pc' = "setup"
                          /\ round' = "batch"
                          /\ rTimeout' = None
                          /\ pairs' = all_pairs(pat_entries)
                          /\ demuxers' = << >>
                          /\ packets' = << >>
                          /\ cur' = Some([packet |-> packet,
                                          transport_stream_id |-> transport_stream_id,
                                          strength |-> strength,
                                          pat_entries |-> pat_entries])
                          /\ UNCHANGED <<idx, found, progress, result>>

\* The decoding of the received packets and found_transponders.insert.
InsertTransponder ==
    /\ pc = "insert"
    /\ UNCHANGED callVars
    /\ UNCHANGED <<locks, obs, waitVars, openFds>>
    /\ LET c == unwrap(cur)
           short == \/ \E k \in DOMAIN nit_indices(c.pat_entries) :
                          nit_indices(c.pat_entries)[k] > Len(packets)
                    \/ \E k \in DOMAIN pmt_indices(c.pat_entries) :
                          pmt_indices(c.pat_entries)[k] > Len(packets)
                    \/ sdt_index(c.pat_entries) > Len(packets)
       IN  IF short \/ last_nit(c, packets) = None
           THEN \* packets[index] out of bounds, or nit.unwrap() on None
                /\ ev' = [op |-> "decode", round |-> "batch", res |-> "panic", owned |-> Len(demuxers)]
                /\ Panic
           ELSE IF sdt_from_packet_panics(packets[sdt_index(c.pat_entries)])
           THEN /\ ev' = [op |-> "decode", round |-> "batch", res |-> "failed", owned |-> Len(demuxers)]
                /\ Panic
           ELSE /\ ev' = [op |-> "decode", round |-> "batch", res |-> "ok", owned |-> Len(demuxers)]
                /\ ChannelDone(insert(found, c.transport_stream_id,
                                      new_transponder(channel, c, packets)))

Next ==
    \/ Tune
    \/ WaitForLock
    \/ SetupFilter
    \/ ReadPacket
    \/ Compare
    \/ InsertTransponder

Spec == Init /\ [][Next]_vars

\* ------------------------------------------- wait_for_lock on its own
\* wait_for_lock(timeout, poll_interval) called with arguments of LockTimeouts
\* and LockPollIntervals.
InitLock ==
    /\ pc = "wfl"
    /\ idx = 1
    /\ found = EmptyMap
    /\ progress = << >>
    /\ result = None
    /\ locks = << >>
    /\ obs = << >>
    /\ ev = [op |-> "start", round |-> "none", res |-> "ok", owned |-> 0]
    /\ wTimeout \in LockTimeouts
    /\ wPoll \in LockPollIntervals
    /\ elapsed = 0
    /\ wRet = "loop"
    /\ sawLock = FALSE
    /\ round = "none"
    /\ rTimeout = None
    /\ pairs = << >>
    /\ demuxers = << >>
    /\ packets = << >>
    /\ openFds = 0
    /\ cur = None
    /\ NoCall

\* One pass of the loop of wait_for_lock.
LockLoop ==
    /\ pc = "wfl"
    /\ UNCHANGED callVars
    /\ \E status \in {"lock", "nolock", "err"}, slept \in SleepTimes(wPoll),
          now \in ClockReads(wTimeout, elapsed) :
        LET r == wait_for_lock_iter(wTimeout, now, status, slept)
        IN  /\ ev' = [op |-> "status", round |-> "none", res |-> status, owned |-> 0]
            /\ sawLock' = (sawLock \/ status = "lock")
            /\ elapsed' = r.elapsed
            /\ wRet' = r.ret
            /\ pc' = IF r.ret = "loop" THEN "wfl" ELSE "wfl_done"
    /\ UNCHANGED <<scanVars, wTimeout, wPoll, roundVars>>

NextLock == LockLoop

SpecLock == InitLock /\ [][NextLock]_vars

\* The scan and wait_for_lock are at rest while a function is exercised on its
\* own.
NoScan ==
    /\ pc = "call"
    /\ idx = 1
    /\ found = EmptyMap
    /\ progress = << >>
    /\ result = None
    /\ locks = << >>
    /\ obs = << >>
    /\ ev = [op |-> "start", round |-> "none", res |-> "ok", owned |-> 0]
    /\ wTimeout = None
    /\ wPoll = None
    /\ elapsed = 0
    /\ wRet = "idle"
    /\ sawLock = FALSE
    /\ round = "none"
    /\ rTimeout = None
    /\ pairs = << >>
    /\ demuxers = << >>
    /\ packets = << >>
    /\ openFds = 0
    /\ cur = None

\* ---------------------------------------- BroadcastBand::iter on its own
\* band.iter(): current_channel starts at first_channel; the entries yielded
\* are collected.
InitBand ==
    /\ NoScan
    /\ call = "iter"
    /\ arg \in BroadcastBands
    /\ loc = [current_channel |-> arg.first_channel, yielded |-> << >>]
    /\ outcome = "running"

\* One call of FrequencyIter::next: an entry, or the None that ends the
\* iteration.
BandNext ==
    /\ call = "iter"
    /\ outcome = "running"
    /\ LET item == FrequencyIter_next(arg, loc.current_channel) IN
       IF item = None
       THEN /\ loc' = loc
            /\ outcome' = "returned"
       ELSE /\ loc' = [current_channel |-> loc.current_channel + 1,
                       yielded |-> Append(loc.yielded, unwrap(item))]
            /\ outcome' = outcome
    /\ UNCHANGED <<pc, ev, scanVars, waitVars, roundVars, call, arg>>

NextBand == BandNext

SpecBand == InitBand /\ [][NextBand]_vars

\* ----------------------------------------------- parse_pat on its own
InitPat ==
    /\ NoScan
    /\ call = "parse_pat"
    /\ arg \in PatPackets
    /\ loc = [current_offset |-> 0, elements |-> << >>]
    /\ outcome = "running"

\* One pass of the while loop of parse_pat, or the return of elements; a panic
\* drops them.
ParsePatStep ==
    /\ call = "parse_pat"
    /\ outcome = "running"
    /\ IF loc.current_offset < payload_len(arg)
       THEN LET r == parse_pat_iter(arg, loc.current_offset, loc.elements) IN
            IF r.panicked
            THEN /\ loc' = [current_offset |-> loc.current_offset, elements |-> << >>]
                 /\ outcome' = "panicked"
            ELSE /\ loc' = [current_offset |-> r.current_offset, elements |-> r.elements]
                 /\ outcome' = outcome
       ELSE /\ loc' = loc
            /\ outcome' = "returned"
    /\ UNCHANGED <<pc, ev, scanVars, waitVars, roundVars, call, arg>>

NextPat == ParsePatStep

SpecPat == InitPat /\ [][NextPat]_vars

\* ------------------------------------ Descriptor::read_many on its own
InitDescriptors ==
    /\ NoScan
    /\ call = "read_many"
    /\ arg \in DescriptorBuffers
    /\ loc = [offset |-> 0, descriptors |-> << >>]
    /\ outcome = "running"

\* One pass of the while loop of read_many, or the return of descriptors when
\* offset has reached the end of buf; a panic drops the descriptors.
ReadManyStep ==
    /\ call = "read_many"
    /\ outcome = "running"
    /\ IF loc.offset < Len(arg)
       THEN LET r == read_many_iter(arg, loc.offset, loc.descriptors) IN
            IF r.panicked
            THEN /\ loc' = [offset |-> loc.offset, descriptors |-> << >>]
                 /\ outcome' = "panicked"
            ELSE /\ loc' = [offset |-> r.offset, descriptors |-> r.descriptors]
                 /\ outcome' = outcome
       ELSE /\ loc' = loc
            /\ outcome' = "returned"
    /\ UNCHANGED <<pc, ev, scanVars, waitVars, roundVars, call, arg>>

NextDescriptors == ReadManyStep

SpecDescriptors == InitDescriptors /\ [][NextDescriptors]_vars

\* ------------------------------------ Descriptor::read on its own
InitRead ==
    /\ NoScan
    /\ call = "read"
    /\ arg \in [descriptor_id : DescriptorTags, buf : ReadBuffers]
    /\ loc = None
    /\ outcome = "running"

\* Descriptor::read(descriptor_id, buf), then descriptor_id() of what it
\* returned.
ReadStep ==
    /\ call = "read"
    /\ outcome = "running"
    /\ LET r == Descriptor_read(arg.descriptor_id, arg.buf) IN
       IF r.panicked
       THEN /\ loc' = None
            /\ outcome' = "panicked"
       ELSE /\ loc' = Some([descriptor |-> r.value,
                            descriptor_id |-> descriptor_id(r.value)])
            /\ outcome' = "returned"
    /\ UNCHANGED <<pc, ev, scanVars, waitVars, roundVars, call, arg>>

NextRead == ReadStep

SpecRead == InitRead /\ [][NextRead]_vars

\* ------------------------------- PacketHeader::from_buf on its own
InitHeader ==
    /\ NoScan
    /\ call = "from_buf"
    /\ arg \in HeaderBuffers
    /\ loc = [header |-> None, payload_len |-> None]
    /\ outcome = "running"

\* PacketHeader::from_buf(buf): a header, or a panic.
FromBufStep ==
    /\ call = "from_buf"
    /\ outcome = "running"
    /\ LET r == PacketHeader_from_buf(arg) IN
       IF r.panicked
       THEN /\ loc' = loc
            /\ outcome' = "panicked"
       ELSE /\ loc' = [loc EXCEPT !.header = r.header]
            /\ outcome' = "accepted"
    /\ UNCHANGED <<pc, ev, scanVars, waitVars, roundVars, call, arg>>

\* header.payload_len() on the accepted header, in either build.
PayloadLenStep ==
    /\ call = "from_buf"
    /\ outcome = "accepted"
    /\ \E build \in Builds :
          IF build = "overflow-checks" /\ payload_len_panics(unwrap(loc.header))
          THEN /\ loc' = loc
               /\ outcome' = "panicked"
          ELSE /\ loc' = [loc EXCEPT !.payload_len = Some(payload_len(unwrap(loc.header)))]
               /\ outcome' = "returned"
    /\ UNCHANGED <<pc, ev, scanVars, waitVars, roundVars, call, arg>>

NextHeader ==
    \/ FromBufStep
    \/ PayloadLenStep

SpecHeader == InitHeader /\ [][NextHeader]_vars

\* ----------------- pmt_to_video_pid and pmt_to_audio_pids on their own
InitPids ==
    /\ NoScan
    /\ call \in {"pmt_to_video_pid", "pmt_to_audio_pids"}
    /\ arg \in ProgramMapTables
    /\ loc = None
    /\ outcome = "running"

\* pmt_to_video_pid(pmt_element)
VideoPidStep ==
    /\ call = "pmt_to_video_pid"
    /\ outcome = "running"
    /\ loc' = pmt_to_video_pid(arg)
    /\ outcome' = "returned"
    /\ UNCHANGED <<pc, ev, scanVars, waitVars, roundVars, call, arg>>

\* pmt_to_audio_pids(pmt_element)
AudioPidsStep ==
    /\ call = "pmt_to_audio_pids"
    /\ outcome = "running"
    /\ loc' = Some(pmt_to_audio_pids(arg))
    /\ outcome' = "returned"
    /\ UNCHANGED <<pc, ev, scanVars, waitVars, roundVars, call, arg>>

NextPids ==
    \/ VideoPidStep
    \/ AudioPidsStep

SpecPids == InitPids /\ [][NextPids]_vars

\* ------------------------- ChannelInformation::from_transponder on its own
InitChannels ==
    /\ NoScan
    /\ call = "from_transponder"
    /\ arg \in Transponders
    /\ loc = [i |-> 0, channels |-> << >>]
    /\ outcome = "running"

\* One pass of the loop over the SDT services, or the return of channels after
\* the last one; a panic drops the channels.
FromTransponderStep ==
    /\ call = "from_transponder"
    /\ outcome = "running"
    /\ LET services == arg.service_description_table.services IN
       IF loc.i < Len(services)
       THEN LET r == from_transponder_iter(arg, services[loc.i + 1], loc.channels) IN
            IF r.panicked
            THEN /\ loc' = [i |-> loc.i, channels |-> << >>]
                 /\ outcome' = "panicked"
            ELSE /\ loc' = [i |-> loc.i + 1, channels |-> r.channels]
                 /\ outcome' = outcome
       ELSE /\ loc' = loc
            /\ outcome' = "returned"
    /\ UNCHANGED <<pc, ev, scanVars, waitVars, roundVars, call, arg>>

NextChannels == FromTransponderStep

SpecChannels == InitChannels /\ [][NextChannels]_vars

\* ------------------------------------------------- sort_by_lcn on its own
InitSort ==
    /\ NoScan
    /\ call = "sort_by_lcn"
    /\ arg \in {channels_of(l) : l \in ChannelLists}
    /\ loc = [i |-> 0, channels |-> << >>]
    /\ outcome = "running"

\* channels.sort_by(..): one more channel of the slice is put in its place; the
\* slice holds the sorted channels when all are.
SortStep ==
    /\ call = "sort_by_lcn"
    /\ outcome = "running"
    /\ IF loc.i < Len(arg)
       THEN /\ loc' = [i |-> loc.i + 1,
                       channels |-> sort_insert(loc.channels, arg[loc.i + 1])]
            /\ outcome' = outcome
       ELSE /\ loc' = loc
            /\ outcome' = "returned"
    /\ UNCHANGED <<pc, ev, scanVars, waitVars, roundVars, call, arg>>

NextSort == SortStep

SpecSort == InitSort /\ [][NextSort]_vars

\* The thread running wait_for_lock keeps running.
FairSpecLock == SpecLock /\ WF_vars(NextLock)

\* ================================================================ claims
ObsOf(t) == {i \in DOMAIN obs : obs[i].tsid = t}

NotStronger(a, b) == partial_cmp(a, b) \in {"Less", "Equal"}

Returned == pc \in {"tune", "done"}

\* C1: when the transport_stream_id of the received PAT is already a key of
\* found_transponders, the stored Transponder is replaced only by an observation
\* whose strength is strictly greater than the stored one; an observation that is
\* equal or weaker leaves found_transponders as it was and scan_channel returns.
C1_StrictlyGreaterReplaces ==
    [][ /\ \A t \in DOMAIN found :
              /\ t \in DOMAIN found'
              /\ found'[t] # found[t] =>
                    partial_cmp(found'[t].strength, found[t].strength) = "Greater"
        /\ (/\ pc = "compare"
            /\ Len(obs') = Len(obs) + 1
            /\ obs'[Len(obs')].tsid \in DOMAIN found
            /\ NotStronger(obs'[Len(obs')].strength,
                           found[obs'[Len(obs')].tsid].strength))
           => (found' = found /\ Returned') ]_vars

\* C1 witness: the scan ended after a weaker, then a stronger, then an equally
\* strong observation of one transport stream; the second one is stored.
C1_Witness ==
    /\ pc = "done"
    /\ Len(obs) = 3
    /\ obs[1].tsid = obs[2].tsid /\ obs[2].tsid = obs[3].tsid
    /\ partial_cmp(obs[1].strength, obs[2].strength) = "Less"
    /\ partial_cmp(obs[3].strength, obs[2].strength) = "Equal"
    /\ found[obs[2].tsid].frequency = obs[2].frequency

\* C2: at the end of a scan the Transponder retained for a transport_stream_id
\* has the maximum strength among all observations of that id, in whatever order
\* they came, and among the observations tied at the maximum it is the first one
\* (its frequency is the stored one); every observed id is retained.
C2_MaxStrengthFirstWins ==
    pc = "done" =>
        /\ \A i \in DOMAIN obs : obs[i].tsid \in DOMAIN found
        /\ \A t \in DOMAIN found :
              \E i \in ObsOf(t) :
                  /\ \A j \in ObsOf(t) \ {i} :
                        NotStronger(obs[j].strength, obs[i].strength)
                  /\ \A j \in ObsOf(t) :
                        j < i => partial_cmp(obs[j].strength, obs[i].strength) = "Less"
                  /\ found[t].strength = obs[i].strength
                  /\ found[t].frequency = obs[i].frequency

\* C2 witness: the strongest observation came first, a weaker one second and one
\* tied with the first came last.
C2_Witness ==
    /\ pc = "done"
    /\ Len(obs) = 3
    /\ obs[1].tsid = obs[2].tsid /\ obs[2].tsid = obs[3].tsid
    /\ partial_cmp(obs[2].strength, obs[1].strength) = "Less"
    /\ partial_cmp(obs[3].strength, obs[1].strength) = "Equal"
    /\ found[obs[1].tsid].frequency = obs[1].frequency

\* Every found transponder was received on a candidate that locked.
FoundOnlyOnLocked ==
    \A t \in DOMAIN found :
        \E i \in DOMAIN locks :
            locks[i] /\ frequencies[i].frequency = found[t].frequency

\* C3: a candidate for which wait_for_lock returns false contributes nothing: no
\* section filter is opened, found_transponders is unchanged, nothing panics and
\* the sweep goes on with the next candidate; when only the 2nd candidate locks,
\* the result holds nothing but the transponder received on the 2nd frequency.
C3_NoLockSkips ==
    /\ [][ (pc = "wait" /\ wRet' = "false") =>
              /\ found' = found
              /\ openFds' = 0 /\ demuxers' = << >> /\ round' = "none"
              /\ Returned'
              /\ idx' = idx + 1 ]_vars
    /\ [](FoundOnlyOnLocked)
    /\ []((pc = "done" /\ \A i \in DOMAIN locks : locks[i] <=> i = 2) =>
            /\ Cardinality(unwrap(result)) <= 1
            /\ \A tr \in unwrap(result) : tr.frequency = frequencies[2].frequency)

\* C3 witness: three candidates, only the 2nd locked, one transponder returned.
C3_Witness ==
    /\ pc = "done"
    /\ locks = << FALSE, TRUE, FALSE >>
    /\ Cardinality(unwrap(result)) = 1

\* C4: when the PAT read of a locked candidate fails with TimedOut, scan_channel
\* returns without touching found_transponders and without panicking, every
\* demux handle closed, and scan_system goes to the next candidate.
C4_PatTimeoutSkips ==
    [][ (pc = "read" /\ ev'.op = "read" /\ ev'.round = "pat" /\ ev'.res = "TimedOut") =>
            /\ found' = found
            /\ Returned'
            /\ idx' = idx + 1
            /\ openFds' = 0 ]_vars

\* C4 witness: the PAT of the 2nd candidate timed out after the 1st candidate
\* gave a transponder, and the scan is about to tune the 3rd.
C4_Witness ==
    /\ ev.op = "read" /\ ev.round = "pat" /\ ev.res = "TimedOut"
    /\ pc = "tune"
    /\ idx = 3
    /\ DOMAIN found # {}

\* A failure of section acquisition other than a PAT read timeout.
FatalAcquisition(e) ==
    /\ e.op \in {"open", "read"}
    /\ \/ e.round = "pat" /\ e.res = "Other"
       \/ e.round = "batch" /\ e.res \in {"Other", "TimedOut"}

\* C5: a section-acquisition failure other than a timeout of the PAT read (a
\* failed open or a non-timeout read error at the PAT step, any error of the
\* batched NIT/PMT/SDT acquisition) aborts the whole scan: the scan panics, no
\* step is taken after a panic and scan_system returns nothing.
C5_OtherFailuresAbort ==
    [][ /\ pc # "panicked"
        /\ (pc \in {"setup", "read"} /\ FatalAcquisition(ev')) =>
              (pc' = "panicked" /\ result' = None) ]_vars

\* C5 witness: a read of the batched acquisition failed after a transponder had
\* been found, with candidates left to scan.
C5_Witness ==
    /\ pc = "panicked"
    /\ ev.op = "read" /\ ev.round = "batch" /\ ev.res = "Other"
    /\ DOMAIN found # {}
    /\ idx < Len(frequencies)
    /\ result = None

\* C6: receive_multiple_single_packets has opened a demux handle and installed
\* the filter of every requested pair before it reads from any of them: while it
\* is setting up nothing has been read, and while it reads, the demuxers left
\* are the filters of exactly the pairs not yet read.
C6_AllFiltersBeforeFirstRead ==
    /\ pc = "setup" => packets = << >>
    /\ pc = "read" =>
          /\ Len(demuxers) + Len(packets) = Len(pairs)
          /\ \A i \in DOMAIN demuxers :
                /\ demuxers[i].pid = pairs[Len(packets) + i].pid
                /\ demuxers[i].table_id = pairs[Len(packets) + i].table_id

\* C6 witness: the batched acquisition of a PAT with four entries is about to
\* make its first read with all five filters installed.
C6_Witness ==
    /\ pc = "read"
    /\ round = "batch"
    /\ packets = << >>
    /\ Len(pairs) = 5
    /\ Len(demuxers) = 5

\* C7: on success receive_multiple_single_packets returns one packet per
\* request, the i-th packet being the one read from the filter of the i-th pair.
C7_PacketsInRequestOrder ==
    pc \in {"compare", "insert"} =>
        /\ Len(packets) = Len(pairs)
        /\ \A i \in DOMAIN pairs :
              /\ packets[i].pid = pairs[i].pid
              /\ packets[i].table_id = pairs[i].table_id

\* C7 witness: the batched acquisition of five requests has returned.
C7_Witness ==
    /\ pc = "insert"
    /\ Len(pairs) = 5
    /\ Len(packets) = 5

\* C8: every demux handle opened by an acquisition round is closed when the call
\* has returned, on every path; inside the round the open handles are exactly
\* the demuxers not yet read.
C8_HandlesClosedOnReturn ==
    /\ pc \notin {"setup", "read", "blocked"} => openFds = 0
    /\ pc \in {"setup", "read", "blocked"} => openFds = Len(demuxers)

\* C8 witness: a read failed while the round still owned the handles of filters
\* not yet read, and all of them are closed.
C8_Witness ==
    /\ pc = "panicked"
    /\ ev.op = "read" /\ ev.res = "Other"
    /\ ev.owned >= 3
    /\ openFds = 0

\* C9: wait_for_lock(Some(timeout), poll_interval) returns true exactly when a
\* status poll observed the lock bit, returns false only when more than timeout
\* has elapsed since the start and no poll observed lock, fails only when the
\* status query failed, and always returns.
C9_WaitForLockBounded ==
    /\ [](wRet = "true" => (sawLock /\ ev.res = "lock"))
    /\ [](sawLock => wRet = "true")
    /\ [](wRet = "false" =>
            (wTimeout # None /\ elapsed > unwrap(wTimeout) /\ ~sawLock))
    /\ [](wRet = "Err" => ev.res = "err")
    /\ [](wTimeout # None => <>(pc = "wfl_done"))

\* C9 witness: the call with timeout 100 ms returned false, never having seen
\* lock, after two polls.
C9_Witness ==
    /\ pc = "wfl_done"
    /\ wTimeout = Some(100)
    /\ wRet = "false"
    /\ ~sawLock
    /\ elapsed > 100

\* C10: every blocking point of a scan step is bounded: every section filter
\* the scan reads from has a timeout, so the scan never waits forever in a read.
C10_EveryBlockingPointBounded ==
    /\ \A i \in DOMAIN demuxers : demuxers[i].timeout > 0
    /\ pc # "blocked"

\* The observation compared by the step just taken, when the step is the
\* comparison of a strength with a stored transponder of the same id.
ComparedWithStored ==
    /\ pc = "compare"
    /\ Len(obs') = Len(obs) + 1
    /\ obs'[Len(obs')].tsid \in DOMAIN found

\* C11: when the strength of a new observation and the stored strength for the
\* same transport_stream_id do not compare (different scale kinds), the scan
\* fails fatally: the stored Transponder is kept as it was, the candidate is not
\* skipped, scan_system returns nothing and no step follows the panic.
C11_IncomparableIsFatal ==
    [][ /\ pc # "panicked"
        /\ (/\ ComparedWithStored
            /\ partial_cmp(obs'[Len(obs')].strength,
                           found[obs'[Len(obs')].tsid].strength) = "None")
           => /\ pc' = "panicked"
              /\ found' = found
              /\ idx' = idx
              /\ progress' = progress
              /\ result' = None
              /\ round' = "none" ]_vars

\* C11 witness: a transponder stored with a strength in decibels was observed
\* again with a relative strength, and the scan panicked in the comparison.
C11_Witness ==
    /\ pc = "panicked"
    /\ ev.op = "signal_strength"
    /\ Len(obs) = 2
    /\ obs[1].tsid = obs[2].tsid
    /\ obs[1].strength.kind = "Decibel"
    /\ obs[2].strength.kind = "Relative"
    /\ found[obs[1].tsid].frequency = obs[1].frequency
    /\ result = None

\* C20: when an observation is discarded because its strength is equal to or
\* weaker than the stored one for the same transport_stream_id, scan_channel
\* returns at once: no NIT/PMT/SDT filter is opened and nothing more is read for
\* the candidate; the batched acquisition only ever runs for an observation
\* whose id is new or whose strength is greater than the stored one.
C20_DiscardOpensNoFilter ==
    /\ [][ (/\ ComparedWithStored
            /\ NotStronger(obs'[Len(obs')].strength,
                           found[obs'[Len(obs')].tsid].strength))
           => /\ round' = "none"
              /\ pairs' = << >>
              /\ demuxers' = << >>
              /\ packets' = << >>
              /\ openFds' = 0
              /\ Returned'
              /\ idx' = idx + 1 ]_vars
    /\ [](round = "batch" =>
            LET c == unwrap(cur) IN
            \/ c.transport_stream_id \notin DOMAIN found
            \/ partial_cmp(c.strength, found[c.transport_stream_id].strength) = "Greater")

\* C20 witness: the observation of the 2nd candidate was weaker than the stored
\* one of the 1st, and the scan is about to tune the 3rd with no handle open.
C20_Witness ==
    /\ pc = "tune"
    /\ idx = 3
    /\ ev.op = "signal_strength"
    /\ Len(obs) = 2
    /\ obs[1].tsid = obs[2].tsid
    /\ partial_cmp(obs[2].strength, obs[1].strength) = "Less"
    /\ found[obs[1].tsid].frequency = obs[1].frequency
    /\ openFds = 0
    /\ round = "none"

\* C12: a decode failure of the PAT, NIT, PMT or SDT, or of a descriptor inside
\* them, only skips the candidate: after the failure the scan has not panicked,
\* it is at the next candidate or has returned.
C12_DecodeFailureSkips ==
    (ev.op = "decode" /\ ev.res = "failed") => Returned

\* C13: a read on a section filter that returns zero bytes ends like a filter
\* timeout: at the PAT step the candidate is skipped, and nowhere does the scan
\* panic on it.
C13_ZeroReadIsTimeout ==
    (ev.op = "read" /\ ev.res = "Zero") =>
        /\ pc # "panicked"
        /\ ev.round = "pat" => Returned

\* C14: after sort_by_lcn the channels that have a logical_channel_number come
\* first, in ascending number order, and every channel without one comes after
\* all channels that have one.
C14_NumberedFirstAscending ==
    (call = "sort_by_lcn" /\ outcome = "returned") =>
        \A i, j \in DOMAIN loc.channels :
            i < j =>
                LET a == loc.channels[i].logical_channel_number
                    b == loc.channels[j].logical_channel_number
                IN  /\ a = None => b = None
                    /\ (a # None /\ b # None) => unwrap(a) <= unwrap(b)

\* An elementary stream of the PMT is video.
HasVideo(pmt) ==
    \E i \in DOMAIN pmt.elementary_streams : is_video(pmt.elementary_streams[i].stream_type)

\* The PMTs of the transponder whose program_number is service_id.
PmtsOf(transponder, service_id) ==
    {transponder.program_map[i] : i \in
        {j \in DOMAIN transponder.program_map :
            transponder.program_map[j].program_number = service_id}}

\* C15: a service whose matching PMT has no video elementary stream is skipped
\* by the projector: the projection does not fail on it, and the channels it
\* returns hold none for such a service.
C15_NoVideoServiceSkipped ==
    call = "from_transponder" =>
        /\ outcome # "panicked"
        /\ outcome = "returned" =>
              \A k \in DOMAIN loc.channels :
                  \E p \in PmtsOf(arg, loc.channels[k].service_id) : HasVideo(p)

\* The service carries a Service descriptor, a ServiceList descriptor of some
\* NIT element lists its service_id, and a PMT has its service_id as
\* program_number.
Projectable(transponder, service) ==
    /\ \E i \in DOMAIN service.descriptors : service.descriptors[i].variant = "Service"
    /\ \E e \in DOMAIN transponder.network_information_table.elements :
          LET ds == transponder.network_information_table.elements[e].transport_descriptors
          IN  \E k \in DOMAIN ds :
                /\ ds[k].variant = "ServiceList"
                /\ \E j \in DOMAIN ds[k].services :
                      ds[k].services[j].service_id = service.service_id
    /\ PmtsOf(transponder, service.service_id) # {}

\* The NIT element of the transponder with the transport_stream_id has a
\* LogicalChannel entry for service_id.
HasLcnEntry(transponder, transport_stream_id, service_id) ==
    \E e \in DOMAIN transponder.network_information_table.elements :
        LET el == transponder.network_information_table.elements[e] IN
        /\ el.transport_stream_id = transport_stream_id
        /\ \E k \in DOMAIN el.transport_descriptors :
              /\ el.transport_descriptors[k].variant = "LogicalChannel"
              /\ \E j \in DOMAIN el.transport_descriptors[k].elements :
                    el.transport_descriptors[k].elements[j].service_id = service_id

\* The channels returned are those of the projectable services, in SDT order,
\* without a logical_channel_number exactly when the NIT element has no entry.
ChannelsAreTheProjectable ==
    LET IsProjectable(service) == Projectable(arg, service)
        expected == SelectSeq(arg.service_description_table.services, IsProjectable)
    IN  /\ Len(loc.channels) = Len(expected)
        /\ \A k \in DOMAIN expected :
              /\ loc.channels[k].service_id = expected[k].service_id
              /\ loc.channels[k].logical_channel_number = None <=>
                    ~HasLcnEntry(arg, loc.channels[k].transport_stream_id,
                                 loc.channels[k].service_id)

\* C16: from_transponder emits a channel for an SDT service exactly when the
\* service carries a Service descriptor, a ServiceList of some NIT element lists
\* it and a PMT has its program_number; the other services are skipped without
\* error, and the channels come in SDT service order.
C16_ChannelExactlyWhenMatched ==
    (call = "from_transponder" /\ outcome # "running") =>
        /\ outcome = "returned"
        /\ ChannelsAreTheProjectable

\* The projections that return give the channels of the projectable services.
ReturnedChannelsAreTheProjectable ==
    (call = "from_transponder" /\ outcome = "returned") => ChannelsAreTheProjectable

\* C17: Descriptor::read gives, for a tag that is none of the known tags, the
\* _Unknown variant with that tag as descriptor_id and the given bytes as
\* raw_data; read_many drops no descriptor: every pass of its loop that does not
\* panic adds exactly one descriptor behind those it had, for an unknown tag
\* the _Unknown one of the tag and of the length bytes that follow, and it
\* returns only when the whole buffer is consumed.
C17_UnknownDescriptorKept ==
    /\ [][ (/\ call = "read_many"
            /\ outcome = "running"
            /\ loc.offset < Len(arg)
            /\ outcome' = "running")
           => LET tag == arg[loc.offset + 1]
                  length == arg[loc.offset + 2]
                  n == Len(loc.descriptors)
              IN  /\ Len(loc'.descriptors) = n + 1
                  /\ SubSeq(loc'.descriptors, 1, n) = loc.descriptors
                  /\ tag \notin KnownDescriptorIds =>
                        loc'.descriptors[n + 1] =
                            [variant |-> "_Unknown",
                             descriptor_id |-> tag,
                             raw_data |-> SubSeq(arg, loc.offset + 3,
                                                 loc.offset + 2 + length)] ]_vars
    /\ []((call = "read_many" /\ outcome = "returned") => loc.offset = Len(arg))

\* C17 witness: read_many returned an unknown descriptor (tag 5) with its one
\* byte, followed by a NetworkName.
C17_Witness ==
    /\ call = "read_many"
    /\ outcome = "returned"
    /\ arg = << 5, 1, 2, 64, 0 >>
    /\ loc.descriptors =
          << [variant |-> "_Unknown", descriptor_id |-> 5, raw_data |-> << 2 >>],
             [variant |-> "NetworkName", name |-> << >>] >>

\* C18: parse_pat returns one entry per 4-byte record of the payload, in
\* payload order: program_number is the big-endian value of the first two
\* bytes, the value is the 13-bit PID of the last two, Network(pid) when
\* program_number is 0 and ProgramMap(pid) otherwise; a payload of whole
\* records is always decoded.
C18_OneEntryPerRecord ==
    call = "parse_pat" =>
        /\ (outcome = "returned") =>
              /\ Len(loc.elements) * 4 = Len(arg.data)
              /\ \A i \in DOMAIN loc.elements :
                    LET e == loc.elements[i]
                        o == 4 * (i - 1)
                    IN  /\ e.program_number = arg.data[o + 1] * 256 + arg.data[o + 2]
                        /\ e.value.pid = (arg.data[o + 3] % 32) * 256 + arg.data[o + 4]
                        /\ e.value.pid < 8192
                        /\ e.value.kind = "Network" <=> e.program_number = 0
                        /\ e.value.kind = "ProgramMap" <=> e.program_number # 0
        /\ (Len(arg.data) % 4 = 0) => outcome # "panicked"

\* C18 witness: the payload 00 00 E0 10 01 00 FF FF was decoded to Network(16)
\* and, for program 256, ProgramMap(8191).
C18_Witness ==
    /\ call = "parse_pat"
    /\ outcome = "returned"
    /\ arg.data = << 0, 0, 224, 16, 1, 0, 255, 255 >>
    /\ loc.elements =
          << [program_number |-> 0, value |-> [kind |-> "Network", pid |-> 16]],
             [program_number |-> 256, value |-> [kind |-> "ProgramMap", pid |-> 8191]] >>

\* C19: BroadcastBand::iter yields exactly last_channel - first_channel + 1
\* entries, in ascending channel number from first_channel to last_channel, the
\* entry of channel n at first_frequency + (n - first_channel) * bandwidth; for
\* FRANCE_UHF these are 29 entries, from channel 21 at 474,166,000 Hz to channel
\* 49 at 698,166,000 Hz.
C19_BandEntries ==
    (call = "iter" /\ outcome = "returned") =>
        /\ Len(loc.yielded) = arg.last_channel - arg.first_channel + 1
        /\ \A k \in DOMAIN loc.yielded :
              /\ loc.yielded[k].number = Some(arg.first_channel + k - 1)
              /\ loc.yielded[k].frequency =
                    arg.first_frequency + (k - 1) * bandwidth_value[arg.bandwidth]
              /\ loc.yielded[k].bandwidth = arg.bandwidth
        /\ arg = FRANCE_UHF =>
              /\ Len(loc.yielded) = 29
              /\ loc.yielded[1].number = Some(21)
              /\ loc.yielded[1].frequency = 474166000
              /\ loc.yielded[29].number = Some(49)
              /\ loc.yielded[29].frequency = 698166000

\* C19 witness: the iteration of FRANCE_UHF is over with its 29 entries.
C19_Witness ==
    /\ call = "iter"
    /\ outcome = "returned"
    /\ arg = FRANCE_UHF
    /\ Len(loc.yielded) = 29
    /\ loc.yielded[29].frequency = 698166000

\* The table kind scan_channel decodes packets[i] as: the NIT for the indices of
\* nit_indices, the PMT for those of pmt_indices, the SDT for sdt_index.
DecodedAs(pat_entries, i) ==
    {t \in {"NIT", "PMT", "SDT"} :
        \/ t = "NIT" /\ \E k \in DOMAIN nit_indices(pat_entries) :
                            nit_indices(pat_entries)[k] = i
        \/ t = "PMT" /\ \E k \in DOMAIN pmt_indices(pat_entries) :
                            pmt_indices(pat_entries)[k] = i
        \/ t = "SDT" /\ sdt_index(pat_entries) = i}

\* C21: for a kept observation the requests are one per PAT entry in PAT order,
\* (pid, 0x40) for a Network entry and (pid, 0x02) for a ProgramMap entry, then
\* (0x11, 0x42) for the SDT, and the packet of index i is decoded as the table
\* kind requested at index i.
C21_OneRequestPerPatEntry ==
    (round = "batch" /\ cur # None) =>
        LET e == unwrap(cur).pat_entries IN
        /\ Len(pairs) = Len(e) + 1
        /\ \A i \in 1..Len(e) :
              /\ pairs[i].pid = e[i].value.pid
              /\ e[i].value.kind = "Network" => pairs[i].table_id = 64
              /\ e[i].value.kind = "ProgramMap" => pairs[i].table_id = 2
        /\ pairs[Len(pairs)] = [pid |-> 17, table_id |-> 66]
        /\ \A i \in DOMAIN pairs :
              DecodedAs(e, i) = CASE pairs[i].table_id = 64 -> {"NIT"}
                                  [] pairs[i].table_id = 2 -> {"PMT"}
                                  [] pairs[i].table_id = 66 -> {"SDT"}
        /\ pc = "insert" =>
              /\ Len(packets) = Len(pairs)
              /\ \A i \in DOMAIN packets :
                    /\ packets[i].pid = pairs[i].pid
                    /\ packets[i].table_id = pairs[i].table_id

\* C21 witness: the five packets asked for after a PAT of two Network and two
\* ProgramMap entries are all received.
C21_Witness ==
    /\ pc = "insert"
    /\ round = "batch"
    /\ cur # None
    /\ Len(unwrap(cur).pat_entries) = 4
    /\ Len(packets) = 5
    /\ packets[2].table_id = NIT_ACTUAL_NETWORK_TABLE_ID
    /\ packets[3].table_id = PMT_TABLE_ID

\* The Transponder tr holds the data of the observation obs[i] and of nothing
\* else: the candidate's frequency and bandwidth, the strength measured then,
\* and tables decoded from sections received on that frequency.
FromObservation(tr, i) ==
    /\ tr.frequency = obs[i].frequency
    /\ tr.strength = obs[i].strength
    /\ tr.system = system
    /\ \E k \in DOMAIN frequencies :
          /\ k <= Len(locks)
          /\ frequencies[k].frequency = obs[i].frequency
          /\ frequencies[k].bandwidth = tr.bandwidth
    /\ \A k \in DOMAIN tr.program_map :
          /\ tr.program_map[k].table = "PMT"
          /\ tr.program_map[k].freq = obs[i].frequency
    /\ tr.service_description.table = "SDT"
    /\ tr.service_description.freq = obs[i].frequency
    /\ tr.network_information.table = "NIT"
    /\ tr.network_information.freq = obs[i].frequency

\* C22: every Transponder of found_transponders is stored under the
\* transport_stream_id of the PAT of one observation, and every field of it
\* comes from that observation; a replacement mixes nothing of the old one in.
C22_TransponderFromOneObservation ==
    \A t \in DOMAIN found :
        \E i \in DOMAIN obs :
            /\ obs[i].tsid = t
            /\ FromObservation(found[t], i)

\* C22 witness: a second, stronger observation of a transport_stream_id has
\* replaced the Transponder of the first one.
C22_Witness ==
    /\ Len(obs) >= 2
    /\ obs[1].tsid = obs[2].tsid
    /\ partial_cmp(obs[2].strength, obs[1].strength) = "Greater"
    /\ obs[1].tsid \in DOMAIN found
    /\ found[obs[1].tsid].frequency = obs[2].frequency
    /\ found[obs[1].tsid].bandwidth # frequencies[1].bandwidth

\* buf is a concatenation of records (tag, length, `length` bytes of data).
RECURSIVE IsRecords(_)
IsRecords(buf) ==
    \/ buf = << >>
    \/ /\ Len(buf) >= 2
       /\ 2 + buf[2] <= Len(buf)
       /\ IsRecords(SubSeq(buf, 3 + buf[2], Len(buf)))

\* The records of such a buffer, in buffer order.
RECURSIVE RecordsOf(_)
RecordsOf(buf) ==
    IF buf = << >> THEN << >>
    ELSE << [tag |-> buf[1], data |-> SubSeq(buf, 3, 2 + buf[2])] >>
         \o RecordsOf(SubSeq(buf, 3 + buf[2], Len(buf)))

\* read_many has returned one descriptor per record of arg, in order, each
\* decoded from the data of its record, with offset at the end of arg.
OneDescriptorPerRecord ==
    /\ loc.offset = Len(arg)
    /\ Len(loc.descriptors) = Len(RecordsOf(arg))
    /\ \A k \in DOMAIN loc.descriptors :
          loc.descriptors[k] =
              Descriptor_read(RecordsOf(arg)[k].tag, RecordsOf(arg)[k].data).value

\* C23: for a buffer that is a concatenation of (tag, length, data) records
\* read_many terminates and returns one descriptor per record in buffer order,
\* each decoded from exactly its data bytes, having consumed the whole buffer.
C23_OneDescriptorPerRecord ==
    (call = "read_many" /\ IsRecords(arg)) =>
        /\ outcome # "panicked"
        /\ loc.offset <= Len(arg)
        /\ outcome = "returned" => OneDescriptorPerRecord

\* The same for the buffers whose records all decode: holds.
DecodableRecordsReadInOrder ==
    (/\ call = "read_many"
     /\ IsRecords(arg)
     /\ \A k \in DOMAIN RecordsOf(arg) :
           ~Descriptor_read(RecordsOf(arg)[k].tag, RecordsOf(arg)[k].data).panicked) =>
        /\ outcome # "panicked"
        /\ loc.offset <= Len(arg)
        /\ outcome = "returned" => OneDescriptorPerRecord

\* C24: for every tag t and every buffer that decodes, the descriptor
\* Descriptor::read(t, bytes) returns answers descriptor_id() with t, for the
\* known tags (LogicalChannel, 0x83, included) and for the unknown ones.
C24_DescriptorIdIsTheTag ==
    (call = "read" /\ outcome = "returned") =>
        unwrap(loc).descriptor_id = arg.descriptor_id

\* C25: every header PacketHeader::from_buf accepts has section_length <= 0x3FD,
\* and payload_len() of an accepted header is section_length - 9 and not
\* negative, without wrap-around or failure, also when section_length is below 9.
C25_PayloadLenInRange ==
    (call = "from_buf" /\ loc.header # None) =>
        /\ unwrap(loc.header).section_length <= 1021
        /\ outcome # "panicked"
        /\ loc.payload_len # None =>
              /\ unwrap(loc.payload_len) = unwrap(loc.header).section_length - 9
              /\ unwrap(loc.payload_len) >= 0

\* The same for the accepted headers whose section_length is at least 9: holds.
PayloadLenFromNine ==
    (call = "from_buf" /\ loc.header # None) =>
        /\ unwrap(loc.header).section_length <= 1021
        /\ unwrap(loc.header).section_length >= 9 =>
              /\ outcome # "panicked"
              /\ loc.payload_len # None =>
                    /\ unwrap(loc.payload_len) = unwrap(loc.header).section_length - 9
                    /\ unwrap(loc.payload_len) >= 0

\* C26: the video PID comes from the first elementary stream of the PMT whose
\* type is video; pcr_pid is the PCR PID of the PMT, video_pid is the PID of
\* that stream when it differs from the PCR PID and is absent when it does not.
C26_VideoPidFromFirstVideoStream ==
    (call = "pmt_to_video_pid" /\ outcome = "returned") =>
        LET es == arg.elementary_streams
            videos == {i \in DOMAIN es : is_video(es[i].stream_type)}
        IN  IF videos = {} THEN loc = None
            ELSE LET first == CHOOSE i \in videos : \A j \in videos : i <= j IN
                 /\ loc # None
                 /\ unwrap(loc).pcr_pid = arg.pcr_pid
                 /\ es[first].elementary_pid # arg.pcr_pid =>
                        unwrap(loc).video_pid = Some(es[first].elementary_pid)
                 /\ es[first].elementary_pid = arg.pcr_pid =>
                        unwrap(loc).video_pid = None

\* C26 witness: of two video streams the first is off the PCR PID and the
\* second on it; the PID of the first one is returned.
C26_Witness ==
    /\ call = "pmt_to_video_pid"
    /\ outcome = "returned"
    /\ Len(arg.elementary_streams) = 3
    /\ arg.elementary_streams[2].elementary_pid = 102
    /\ arg.elementary_streams[3].elementary_pid = 101
    /\ ~is_video(arg.elementary_streams[1].stream_type)
    /\ unwrap(loc).video_pid = Some(102)

\* The streams of a PMT that belong in regular_pids and in dolby_pids.
IsRegularAudio(e) ==
    e.stream_type \in {"IsoIec11172Audio", "IsoIec13818_3Audio"}

IsDolbyAudio(e) ==
    /\ e.stream_type \in {"ItuTRecH2220IsoIec13818_1PrivateSections",
                          "ItuTRecH2220IsoIec13818_1PESPacketsContainingPrivateData"}
    /\ \E k \in DOMAIN e.descriptors : e.descriptors[k].variant \in {"Ac3", "EnhancedAc3"}

\* The entries are those of the streams, one each in PMT order, with a language
\* code spelt by an Iso639Language descriptor of the stream itself, or empty.
EntriesOf(entries, streams) ==
    /\ Len(entries) = Len(streams)
    /\ \A k \in DOMAIN entries :
          /\ entries[k].pid = streams[k].elementary_pid
          /\ LET ds == streams[k].descriptors
                 langs == {i \in DOMAIN ds : ds[i].variant = "Iso639Language"}
             IN  IF langs = {} THEN entries[k].language_code = << >>
                 ELSE \E i \in langs :
                         entries[k].language_code = SubSeq(ds[i].language, 1, 3)

\* C27: an elementary stream is in regular_pids iff its type is ISO 11172 or ISO
\* 13818-3 audio, in dolby_pids iff its type is private sections or private PES
\* and it carries an AC-3 or Enhanced AC-3 descriptor, in neither otherwise; the
\* language code of an entry is that of the stream's own Iso639Language
\* descriptor, the empty string when it has none.
C27_AudioPidsByType ==
    (call = "pmt_to_audio_pids" /\ outcome = "returned") =>
        /\ EntriesOf(unwrap(loc).regular_pids,
                     SelectSeq(arg.elementary_streams, IsRegularAudio))
        /\ EntriesOf(unwrap(loc).dolby_pids,
                     SelectSeq(arg.elementary_streams, IsDolbyAudio))

\* C27 witness: a private stream without audio descriptor between a regular
\* audio stream without language and a private stream with an AC-3 descriptor.
C27_Witness ==
    /\ call = "pmt_to_audio_pids"
    /\ outcome = "returned"
    /\ Len(arg.elementary_streams) = 3
    /\ arg.elementary_streams[1].elementary_pid = 202
    /\ arg.elementary_streams[2].elementary_pid = 205
    /\ arg.elementary_streams[3].elementary_pid = 203
    /\ Len(unwrap(loc).regular_pids) = 1
    /\ unwrap(loc).regular_pids[1].language_code = << >>
    /\ Len(unwrap(loc).dolby_pids) = 1
    /\ unwrap(loc).dolby_pids[1].pid = 203
    /\ unwrap(loc).dolby_pids[1].language_code = << 100, 101, 117 >>

\* C28: a Transponder is inserted only with a NIT received from the PID of a
\* Network (program_number 0) entry of its PAT, the last one when there are
\* several; an observation whose PAT has no Network entry inserts nothing.
C28_NitFromLastNetworkEntry ==
    [][found' # found =>
          /\ cur # None
          /\ LET c == unwrap(cur)
                 e == c.pat_entries
                 nets == {i \in DOMAIN e : e[i].program_number = 0}
             IN  /\ nets # {}
                 /\ DOMAIN found' = DOMAIN found \cup {c.transport_stream_id}
                 /\ LET last == CHOOSE i \in nets : \A j \in nets : i >= j
                        nit == found'[c.transport_stream_id].network_information
                    IN  /\ nit.table = "NIT"
                        /\ nit.pid = e[last].value.pid
                        /\ nit.freq = channel.frequency]_vars

\* C28 witness: the stored Transponder comes from the PAT with the Network
\* entries of the PIDs 16 and 18 and carries the NIT received on PID 18.
C28_Witness ==
    \E t \in DOMAIN found :
        /\ found[t].network_information.pid = 18
        /\ Len(found[t].program_map) = 2

\* C29: wait_for_lock polls the status before it tests the timeout in every
\* pass: the call never returns without a poll, also with a zero timeout; a poll
\* that observes the lock yields true even when the timeout has elapsed; false is
\* returned only on a poll without lock past the timeout; with timeout None the
\* call returns only on a poll that observes the lock or fails.
C29_PollBeforeTimeout ==
    /\ [](pc = "wfl_done" => ev.op = "status")
    /\ [][/\ ev'.op = "status"
          /\ ev'.res = "lock" => wRet' = "true"
          /\ ev'.res = "err" => wRet' = "Err"
          /\ wRet' = "false" =>
                (ev'.res = "nolock" /\ wTimeout # None /\ elapsed' > unwrap(wTimeout))
          /\ (wTimeout = None /\ ev'.res = "nolock") => (wRet' = "loop" /\ pc' = "wfl")]_vars

\* C29 witness: with a timeout of 100 ms the lock is observed by a poll made
\* after more than 100 ms, and the call returns true.
C29_Witness ==
    /\ pc = "wfl_done"
    /\ wTimeout = Some(100)
    /\ elapsed > 100
    /\ ev.res = "lock"
    /\ wRet = "true"

\* C30: scan_system calls the callback once per candidate, in candidate order,
\* after that candidate's step (a skipped candidate included), with the number
\* of transponders found so far; the counts never decrease; the returned list
\* has as many transponders as the last count, one per transport_stream_id.
C30_ProgressPerCandidate ==
    /\ [](/\ Len(progress) = idx - 1
          /\ \A i, j \in DOMAIN progress : i <= j => progress[i] <= progress[j]
          /\ progress # << >> => progress[Len(progress)] = Cardinality(DOMAIN found)
          /\ pc = "done" <=> result # None
          /\ result # None =>
                /\ Len(progress) = Len(frequencies)
                /\ Cardinality(unwrap(result)) = progress[Len(progress)]
                /\ unwrap(result) = {found[t] : t \in DOMAIN found}
                /\ Cardinality(unwrap(result)) = Cardinality(DOMAIN found))
    /\ [][/\ (progress' # progress \/ idx' # idx) =>
                /\ pc \in {"wait", "read", "compare", "insert", "setup"}
                /\ pc' \in {"tune", "done"}
                /\ idx' = idx + 1
                /\ progress' = Append(progress, Cardinality(DOMAIN found'))
          /\ found' # found => progress' # progress]_vars

\* C30 witness: the scan is over; the first candidate was skipped (count 0) and
\* the last count is 2, the number of transponders returned.
C30_Witness ==
    /\ pc = "done"
    /\ Len(progress) = Len(frequencies)
    /\ progress[1] = 0
    /\ progress[Len(progress)] = 2
    /\ Cardinality(unwrap(result)) = 2

====
